---- MODULE Spec2Model ----
(***************************************************************************)
(* Financial ledger and investment lifecycle of the Real-wealth backend.   *)
(*                                                                         *)
(* The state is the content of the MongoDB collections the request         *)
(* handlers read and write (users, deposits, withdrawals, investments,     *)
(* transactions) together with the position and the local variables of     *)
(* every request handler that is currently running.  A handler is a        *)
(* sequence of steps, one per awaited database operation: handlers of      *)
(* different requests interleave between two awaits.                        *)
(*                                                                         *)
(* Handlers that open a session (startTransaction .. commitTransaction)    *)
(* read a snapshot taken by their first operation and their writes become  *)
(* visible together at commitTransaction; when a document they write was   *)
(* written by anybody else after the snapshot, the write raises a          *)
(* WriteConflict, the catch block aborts the transaction and answers 500.  *)
(* Handlers without a session write each document as soon as the awaited   *)
(* call runs.                                                              *)
(***************************************************************************)
EXTENDS Integers, Sequences, FiniteSets, Bags, TLC

\* ------------------------------------------------------------------ bounds
MaxDeposits == 1
MaxWithdrawals == 1
MaxInvestments == 1
MaxBonus == 2
\* investments spawned by auto-renewal
MaxRenewals == 1
\* the clock stops advancing here
MaxClock == 2
\* withdrawals requested on top of MaxWithdrawals where only withdrawals are made
MaxRepeats == 1

\* ------------------------------------------------------- program constants
MinDeposit == 3500
MinWithdrawal == 3500
FeePercent == 5
BonusPercent == 20
\* 24 * 60 * 60 * 1000: a day in milliseconds
Day == 86400000
\* two consecutive statements read the clock in the same millisecond or not
Skews == {0, 1}
\* the value of a date field that was never assigned
NoDate == 0 - 1

\* --------------------------------------------------------- reference data
NoUser == "none"
Users == {"u1", "u2"}
\* users that send create requests; u2 is the referrer of u1
Requesters == {"u1"}
referred_by(u) == IF u = "u1" THEN "u2" ELSE NoUser
InitBalance(u) == IF u = "u1" THEN 20000 ELSE 0
\* amounts a request may carry: below every minimum, inside the plan's range,
\* above the plan's maximum
Amounts == {3000, 10000, 20000}
\* deposits and withdrawals have no upper limit
CashAmounts == {3000, 10000}
\* the amounts of the requests that run concurrently
ConcAmounts == {10000}
\* the investment_amount of a bonus request
BonusAmounts == {10000}

\* the investment plan documents (InvestmentPlan collection)
Plans == {"p1"}
plan(p) == [is_active |-> TRUE, min_amount |-> 5000, max_amount |-> 10000,
            daily_interest |-> 2, total_interest |-> 120, duration |-> 10,
            risk_level |-> "medium"]
risk_tolerance(u) == "medium"
\* the status values a status update request may carry
Statuses == {"pending", "active", "completed", "cancelled", "rejected"}

VARIABLES
    users,         \* User collection: id -> [balance, total_invested, referral_earnings]
    deposits,      \* Deposit collection, a deposit's id is its index
    withdrawals,   \* Withdrawal collection
    investments,   \* Investment collection
    transactions,  \* Transaction collection (the ledger)
    slots,         \* the request handlers in flight: position and locals
    mutations,     \* history: the bag of balance changes applied so far
    deployed,      \* the file that is controllers/adminController of this deployment
    now,           \* the clock: what a handler's first reading returns, in milliseconds
    skew           \* the milliseconds that pass before its next statement reads again

vars == <<users, deposits, withdrawals, investments, transactions, slots, mutations,
          deployed, now, skew>>

\* The repository holds two versions of the admin controller, both exporting
\* approveDeposit, approveWithdrawal and approveInvestment; the admin routes
\* require one controllers/adminController, so a deployment runs one of them.
AdminControllers == {"admin controller.js", "part_000"}

\* ------------------------------------------------------------ handler slots
\* the request handlers that may run at the same time
Slots == {1, 2}

Idle == [pc |-> "idle", op |-> "none", id |-> 0, amt |-> 0, usr |-> NoUser,
         st |-> "none", plan |-> "none", bal |-> 0, renew |-> FALSE, ins |-> FALSE, wset |-> {},
         conflict |-> FALSE, result |-> "none"]

\* a slot that takes no request
Off == [Idle EXCEPT !.pc = "off"]

Quiescent == \A s \in Slots : slots[s].pc \in {"idle", "off"}

\* The handler in slot s moves to record r after writing the documents `keys`;
\* every other open transaction that writes one of them gets a WriteConflict.
Step(s, r, keys) ==
    slots' = [t \in Slots |->
                IF t = s THEN r
                ELSE IF slots[t].pc = "commit" /\ slots[t].wset \cap keys # {}
                     THEN [slots[t] EXCEPT !.conflict = TRUE]
                     ELSE slots[t]]

\* the handler answers: what stays of it is the request and its outcome
Respond(r, msg) ==
    [Idle EXCEPT !.pc = "done", !.op = r.op, !.id = r.id, !.st = r.st, !.result = msg]

\* a new request is taken by the first free handler slot
Free(s) ==
    /\ slots[s].pc = "idle"
    /\ \A t \in Slots : t < s => slots[t].pc # "idle"

\* --------------------------------------------------------------- the ledger
\* a Transaction document; metadata: key/ref is deposit_id, withdrawal_id or
\* investment_id with the entity's id, a referral bonus carries referral_user_id
\* and investment_amount.  n orders the documents of one correlation by insertion.
Same(t, key, ref, from) == t.key = key /\ t.ref = ref /\ t.referral_user_id = from

Tx(txs, u, type, amount, status, key, ref) ==
    [user |-> u, type |-> type, amount |-> amount, status |-> status,
     key |-> key, ref |-> ref, referral_user_id |-> NoUser, investment_amount |-> 0,
     n |-> Cardinality({t \in txs : Same(t, key, ref, NoUser)}) + 1]

BonusTx(txs, u, amount, from, invamt) ==
    [user |-> u, type |-> "referral_bonus", amount |-> amount, status |-> "completed",
     key |-> "referral_user_id", ref |-> 0, referral_user_id |-> from,
     investment_amount |-> invamt,
     n |-> Cardinality({t \in txs : Same(t, "referral_user_id", 0, from)}) + 1]

\* Transaction.create
Insert(txs, t) == txs \cup {t}

\* Transaction.findOneAndUpdate({'metadata.<key>': ref}, {status}): the first
\* document, in insertion order, whose metadata matches; none: nothing is written
findOneAndUpdate(txs, key, ref, status) ==
    LET hits == {t \in txs : t.key = key /\ t.ref = ref}
    IN IF hits = {} THEN txs
       ELSE LET first == CHOOSE t \in hits : \A h \in hits : t.n <= h.n
            IN (txs \ {first}) \cup {[first EXCEPT !.status = status]}

\* the balance change of `delta` for user u, recorded with the entity it is for
Mutation(u, delta, key, ref) ==
    [user |-> u, delta |-> delta, key |-> key, ref |-> ref, referral_user_id |-> NoUser]
BonusMutation(u, delta, from) ==
    [user |-> u, delta |-> delta, key |-> "referral_user_id", ref |-> 0,
     referral_user_id |-> from]
Record(m) == mutations' = mutations (+) SetToBag({m})

\* ------------------------------------------------------------------- Init
InitData ==
    /\ users = [u \in Users |-> [balance |-> InitBalance(u), total_invested |-> 0,
                                 referral_earnings |-> 0, total_earnings |-> 0]]
    /\ deposits = <<>>
    /\ withdrawals = <<>>
    /\ investments = <<>>
    /\ transactions = {}
    /\ mutations = EmptyBag
    /\ deployed \in AdminControllers
    /\ now = 0
    /\ skew \in Skews

\* one request at a time
Init == InitData /\ slots = [s \in Slots |-> IF s = 1 THEN Idle ELSE Off]
\* two requests in flight
InitConc == InitData /\ slots = [s \in Slots |-> Idle]

\* ========================================================== depositController
\* createDeposit that stores the deposit before it checks the amount
createDeposit_mut(s, u, a) ==
    /\ Free(s)
    /\ Len(deposits) < MaxDeposits
    /\ deposits' = Append(deposits, [user |-> u, amount |-> a, status |-> "pending"])
    /\ LET r == [Idle EXCEPT !.op = "createDeposit", !.usr = u, !.amt = a]
       IN IF a < MinDeposit
          THEN Step(s, Respond(r, "Minimum deposit amount"), {})
          ELSE Step(s, [r EXCEPT !.pc = "tx", !.id = Len(deposits) + 1], {})
    /\ UNCHANGED <<users, withdrawals, investments, transactions, mutations, deployed, now, skew>>

\* createDeposit: validation, then Deposit.create
createDeposit(s, u, a) ==
    /\ Free(s)
    /\ LET r == [Idle EXCEPT !.op = "createDeposit", !.usr = u, !.amt = a]
       IN IF a < MinDeposit
          THEN /\ Step(s, Respond(r, "Minimum deposit amount"), {})
               /\ UNCHANGED deposits
          ELSE /\ Len(deposits) < MaxDeposits
               /\ deposits' = Append(deposits, [user |-> u, amount |-> a, status |-> "pending"])
               /\ Step(s, [r EXCEPT !.pc = "tx", !.id = Len(deposits) + 1], {})
    /\ UNCHANGED <<users, withdrawals, investments, transactions, mutations, deployed, now, skew>>

\* a createDeposit that credits the amount when it records the ledger entry
createDeposit_tx_mut(s) ==
    /\ slots[s].pc = "tx" /\ slots[s].op = "createDeposit"
    /\ transactions' = Insert(transactions,
          Tx(transactions, slots[s].usr, "deposit", slots[s].amt, "pending", "deposit_id", slots[s].id))
    /\ users' = [users EXCEPT ![slots[s].usr].balance = @ + slots[s].amt]
    /\ Step(s, Respond(slots[s], "ok"), {})
    /\ UNCHANGED <<deposits, withdrawals, investments, mutations, deployed, now, skew>>

\* createDeposit: Transaction.create, response
createDeposit_tx(s) ==
    /\ slots[s].pc = "tx" /\ slots[s].op = "createDeposit"
    /\ transactions' = Insert(transactions,
          Tx(transactions, slots[s].usr, "deposit", slots[s].amt, "pending", "deposit_id", slots[s].id))
    /\ Step(s, Respond(slots[s], "ok"), {})
    /\ UNCHANGED <<users, deposits, withdrawals, investments, mutations, deployed, now, skew>>

\* ============================================ admin controller.js: deposits
\* approveDeposit without the check of deposit.status
approveDeposit_mut(s, d) ==
    /\ Free(s)
    /\ deployed = "admin controller.js"
    /\ LET r == [Idle EXCEPT !.op = "approveDeposit", !.id = d]
       IN IF d \notin DOMAIN deposits
          THEN Step(s, Respond(r, "Deposit not found"), {})
          ELSE Step(s, [r EXCEPT !.pc = "commit",
                                 !.usr = deposits[d].user,
                                 !.amt = deposits[d].amount,
                                 !.bal = users[deposits[d].user].balance,
                                 !.wset = {<<"deposit", d>>, <<"user", deposits[d].user>>}], {})
    /\ UNCHANGED <<users, deposits, withdrawals, investments, transactions, mutations, deployed, now, skew>>

\* approveDeposit: startTransaction, Deposit.findById, status check
approveDeposit(s, d) ==
    /\ Free(s)
    /\ deployed = "admin controller.js"
    /\ LET r == [Idle EXCEPT !.op = "approveDeposit", !.id = d]
       IN IF d \notin DOMAIN deposits
          THEN Step(s, Respond(r, "Deposit not found"), {})
          ELSE IF deposits[d].status # "pending"
          THEN Step(s, Respond(r, "Deposit already processed"), {})
          ELSE Step(s, [r EXCEPT !.pc = "commit",
                                 !.usr = deposits[d].user,
                                 !.amt = deposits[d].amount,
                                 !.bal = users[deposits[d].user].balance,
                                 !.wset = {<<"deposit", d>>, <<"user", deposits[d].user>>}], {})
    /\ UNCHANGED <<users, deposits, withdrawals, investments, transactions, mutations, deployed, now, skew>>

\* approveDeposit whose writes go through although the user document was
\* written after the snapshot
approveDeposit_commit_mut(s) ==
    /\ slots[s].pc = "commit" /\ slots[s].op = "approveDeposit"
    /\ LET r == slots[s] IN
            /\ deposits' = [deposits EXCEPT ![r.id].status = "approved"]
            /\ users' = [users EXCEPT ![r.usr].balance = r.bal + r.amt]
            /\ transactions' = Insert(
                  findOneAndUpdate(transactions, "deposit_id", r.id, "completed"),
                  Tx(transactions, r.usr, "deposit", r.amt, "completed", "deposit_id", r.id))
            /\ Record(Mutation(r.usr, r.amt, "deposit_id", r.id))
            /\ Step(s, Respond(r, "ok"), r.wset)
    /\ UNCHANGED <<withdrawals, investments, deployed, now, skew>>

\* approveDeposit: deposit.save, user.save, findOneAndUpdate, Transaction.create,
\* commitTransaction
approveDeposit_commit(s) ==
    /\ slots[s].pc = "commit" /\ slots[s].op = "approveDeposit"
    /\ LET r == slots[s] IN
       IF r.conflict
       THEN /\ Step(s, Respond(r, "Server error"), {})
            /\ UNCHANGED <<users, deposits, transactions, mutations>>
       ELSE /\ deposits' = [deposits EXCEPT ![r.id].status = "approved"]
            /\ users' = [users EXCEPT ![r.usr].balance = r.bal + r.amt]
            /\ transactions' = Insert(
                  findOneAndUpdate(transactions, "deposit_id", r.id, "completed"),
                  Tx(transactions, r.usr, "deposit", r.amt, "completed", "deposit_id", r.id))
            /\ Record(Mutation(r.usr, r.amt, "deposit_id", r.id))
            /\ Step(s, Respond(r, "ok"), r.wset)
    /\ UNCHANGED <<withdrawals, investments, deployed, now, skew>>

\* rejectDeposit: Deposit.findById, status check (no session)
rejectDeposit(s, d) ==
    /\ Free(s)
    /\ deployed = "admin controller.js"
    /\ LET r == [Idle EXCEPT !.op = "rejectDeposit", !.id = d]
       IN IF d \notin DOMAIN deposits
          THEN Step(s, Respond(r, "Deposit not found"), {})
          ELSE IF deposits[d].status # "pending"
          THEN Step(s, Respond(r, "Deposit already processed"), {})
          ELSE Step(s, [r EXCEPT !.pc = "save"], {})
    /\ UNCHANGED <<users, deposits, withdrawals, investments, transactions, mutations, deployed, now, skew>>

\* rejectDeposit: deposit.save
rejectDeposit_save(s) ==
    /\ slots[s].pc = "save" /\ slots[s].op = "rejectDeposit"
    /\ deposits' = [deposits EXCEPT ![slots[s].id].status = "rejected"]
    /\ Step(s, [slots[s] EXCEPT !.pc = "tx"], {<<"deposit", slots[s].id>>})
    /\ UNCHANGED <<users, withdrawals, investments, transactions, mutations, deployed, now, skew>>

\* rejectDeposit: Transaction.findOneAndUpdate, response
rejectDeposit_tx(s) ==
    /\ slots[s].pc = "tx" /\ slots[s].op = "rejectDeposit"
    /\ transactions' = findOneAndUpdate(transactions, "deposit_id", slots[s].id, "failed")
    /\ Step(s, Respond(slots[s], "ok"), {})
    /\ UNCHANGED <<users, deposits, withdrawals, investments, mutations, deployed, now, skew>>

\* ======================================================= part_000: deposits
\* approveDeposit (no session): Deposit.findById, status check
approveDeposit_part000(s, d) ==
    /\ Free(s)
    /\ deployed = "part_000"
    /\ LET r == [Idle EXCEPT !.op = "approveDeposit_part000", !.id = d]
       IN IF d \notin DOMAIN deposits
          THEN Step(s, Respond(r, "Deposit not found"), {})
          ELSE IF deposits[d].status # "pending"
          THEN Step(s, Respond(r, "Deposit already processed"), {})
          ELSE Step(s, [r EXCEPT !.pc = "save", !.usr = deposits[d].user,
                                 !.amt = deposits[d].amount], {})
    /\ UNCHANGED <<users, deposits, withdrawals, investments, transactions, mutations, deployed, now, skew>>

\* deposit.save
approveDeposit_part000_save(s) ==
    /\ slots[s].pc = "save" /\ slots[s].op = "approveDeposit_part000"
    /\ deposits' = [deposits EXCEPT ![slots[s].id].status = "approved"]
    /\ Step(s, [slots[s] EXCEPT !.pc = "inc"], {<<"deposit", slots[s].id>>})
    /\ UNCHANGED <<users, withdrawals, investments, transactions, mutations, deployed, now, skew>>

\* User.findByIdAndUpdate($inc balance)
approveDeposit_part000_inc(s) ==
    /\ slots[s].pc = "inc" /\ slots[s].op = "approveDeposit_part000"
    /\ users' = [users EXCEPT ![slots[s].usr].balance = @ + slots[s].amt]
    /\ Record(Mutation(slots[s].usr, slots[s].amt, "deposit_id", slots[s].id))
    /\ Step(s, [slots[s] EXCEPT !.pc = "tx"], {<<"user", slots[s].usr>>})
    /\ UNCHANGED <<deposits, withdrawals, investments, transactions, deployed, now, skew>>

\* Transaction.findOneAndUpdate, response
approveDeposit_part000_tx(s) ==
    /\ slots[s].pc = "tx" /\ slots[s].op = "approveDeposit_part000"
    /\ transactions' = findOneAndUpdate(transactions, "deposit_id", slots[s].id, "completed")
    /\ Step(s, Respond(slots[s], "ok"), {})
    /\ UNCHANGED <<users, deposits, withdrawals, investments, mutations, deployed, now, skew>>

\* ======================================================= withdrawalcontroller
\* amount * 0.05
Fee(a) == (a * FeePercent) \div 100

\* requests that have passed validation and will insert a withdrawal
InFlightWithdrawals ==
    Cardinality({t \in Slots : slots[t].op = "createWithdrawal" /\ slots[t].pc = "create"})

WithdrawalIds == 1..(MaxWithdrawals + MaxRepeats)

\* createWithdrawal: amount check, User.findById, balance check; at most cap
\* withdrawals are requested
createWithdrawal_within(s, u, a, cap) ==
    /\ Free(s)
    /\ LET r == [Idle EXCEPT !.op = "createWithdrawal", !.usr = u, !.amt = a,
                             !.bal = users[u].balance]
       IN IF a < MinWithdrawal
          THEN Step(s, Respond(r, "Minimum withdrawal amount"), {})
          ELSE IF users[u].balance < a
          THEN Step(s, Respond(r, "Insufficient balance"), {})
          ELSE /\ Len(withdrawals) + InFlightWithdrawals < cap
               /\ Step(s, [r EXCEPT !.pc = "create"], {})
    /\ UNCHANGED <<users, deposits, withdrawals, investments, transactions, mutations, deployed, now, skew>>

createWithdrawal(s, u, a) == createWithdrawal_within(s, u, a, MaxWithdrawals)

\* createWithdrawal that stores the amount as net_amount
createWithdrawal_create_mut(s) ==
    /\ slots[s].pc = "create" /\ slots[s].op = "createWithdrawal"
    /\ withdrawals' = Append(withdrawals,
          [user |-> slots[s].usr, amount |-> slots[s].amt, fee |-> Fee(slots[s].amt),
           net_amount |-> slots[s].amt, status |-> "pending"])
    /\ Step(s, [slots[s] EXCEPT !.pc = "tx", !.id = Len(withdrawals) + 1], {})
    /\ UNCHANGED <<users, deposits, investments, transactions, mutations, deployed, now, skew>>

\* createWithdrawal: Withdrawal.create
createWithdrawal_create(s) ==
    /\ slots[s].pc = "create" /\ slots[s].op = "createWithdrawal"
    /\ withdrawals' = Append(withdrawals,
          [user |-> slots[s].usr, amount |-> slots[s].amt, fee |-> Fee(slots[s].amt),
           net_amount |-> slots[s].amt - Fee(slots[s].amt), status |-> "pending"])
    /\ Step(s, [slots[s] EXCEPT !.pc = "tx", !.id = Len(withdrawals) + 1], {})
    /\ UNCHANGED <<users, deposits, investments, transactions, mutations, deployed, now, skew>>

\* createWithdrawal: Transaction.create, response
createWithdrawal_tx(s) ==
    /\ slots[s].pc = "tx" /\ slots[s].op = "createWithdrawal"
    /\ transactions' = Insert(transactions,
          Tx(transactions, slots[s].usr, "withdrawal", 0 - slots[s].amt, "pending",
             "withdrawal_id", slots[s].id))
    /\ Step(s, Respond(slots[s], "ok"), {})
    /\ UNCHANGED <<users, deposits, withdrawals, investments, mutations, deployed, now, skew>>

\* ========================================= admin controller.js: withdrawals
\* approveWithdrawal: startTransaction, Withdrawal.findById, status check
approveWithdrawal(s, w) ==
    /\ Free(s)
    /\ deployed = "admin controller.js"
    /\ LET r == [Idle EXCEPT !.op = "approveWithdrawal", !.id = w]
       IN IF w \notin DOMAIN withdrawals
          THEN Step(s, Respond(r, "Withdrawal not found"), {})
          ELSE IF withdrawals[w].status # "pending"
          THEN Step(s, Respond(r, "Withdrawal already processed"), {})
          ELSE Step(s, [r EXCEPT !.pc = "commit", !.usr = withdrawals[w].user,
                                 !.amt = withdrawals[w].amount,
                                 !.wset = {<<"withdrawal", w>>}], {})
    /\ UNCHANGED <<users, deposits, withdrawals, investments, transactions, mutations, deployed, now, skew>>

\* approveWithdrawal: withdrawal.save, findOneAndUpdate, commitTransaction
approveWithdrawal_commit(s) ==
    /\ slots[s].pc = "commit" /\ slots[s].op = "approveWithdrawal"
    /\ LET r == slots[s] IN
       IF r.conflict
       THEN /\ Step(s, Respond(r, "Server error"), {})
            /\ UNCHANGED <<withdrawals, transactions>>
       ELSE /\ withdrawals' = [withdrawals EXCEPT ![r.id].status = "approved"]
            /\ transactions' = findOneAndUpdate(transactions, "withdrawal_id", r.id, "completed")
            /\ Step(s, Respond(r, "ok"), r.wset)
    /\ UNCHANGED <<users, deposits, investments, mutations, deployed, now, skew>>

\* rejectWithdrawal: startTransaction, Withdrawal.findById, status check
rejectWithdrawal(s, w) ==
    /\ Free(s)
    /\ deployed = "admin controller.js"
    /\ LET r == [Idle EXCEPT !.op = "rejectWithdrawal", !.id = w]
       IN IF w \notin DOMAIN withdrawals
          THEN Step(s, Respond(r, "Withdrawal not found"), {})
          ELSE IF withdrawals[w].status # "pending"
          THEN Step(s, Respond(r, "Withdrawal already processed"), {})
          ELSE Step(s, [r EXCEPT !.pc = "commit", !.usr = withdrawals[w].user,
                                 !.amt = withdrawals[w].amount,
                                 !.bal = users[withdrawals[w].user].balance,
                                 !.wset = {<<"withdrawal", w>>,
                                           <<"user", withdrawals[w].user>>}], {})
    /\ UNCHANGED <<users, deposits, withdrawals, investments, transactions, mutations, deployed, now, skew>>

\* rejectWithdrawal: withdrawal.save, user.save (refund), findOneAndUpdate,
\* commitTransaction
rejectWithdrawal_commit(s) ==
    /\ slots[s].pc = "commit" /\ slots[s].op = "rejectWithdrawal"
    /\ LET r == slots[s] IN
       IF r.conflict
       THEN /\ Step(s, Respond(r, "Server error"), {})
            /\ UNCHANGED <<users, withdrawals, transactions, mutations>>
       ELSE /\ withdrawals' = [withdrawals EXCEPT ![r.id].status = "rejected"]
            /\ users' = [users EXCEPT ![r.usr].balance = r.bal + r.amt]
            /\ transactions' = findOneAndUpdate(transactions, "withdrawal_id", r.id, "failed")
            /\ Record(Mutation(r.usr, r.amt, "withdrawal_id", r.id))
            /\ Step(s, Respond(r, "ok"), r.wset)
    /\ UNCHANGED <<deposits, investments, deployed, now, skew>>

\* ==================================================== part_000: withdrawals
\* approveWithdrawal (no session): Withdrawal.findById, status check
approveWithdrawal_part000(s, w) ==
    /\ Free(s)
    /\ deployed = "part_000"
    /\ LET r == [Idle EXCEPT !.op = "approveWithdrawal_part000", !.id = w]
       IN IF w \notin DOMAIN withdrawals
          THEN Step(s, Respond(r, "Withdrawal not found"), {})
          ELSE IF withdrawals[w].status # "pending"
          THEN Step(s, Respond(r, "Withdrawal already processed"), {})
          ELSE Step(s, [r EXCEPT !.pc = "save", !.usr = withdrawals[w].user,
                                 !.amt = withdrawals[w].amount], {})
    /\ UNCHANGED <<users, deposits, withdrawals, investments, transactions, mutations, deployed, now, skew>>

\* withdrawal.save
approveWithdrawal_part000_save(s) ==
    /\ slots[s].pc = "save" /\ slots[s].op = "approveWithdrawal_part000"
    /\ withdrawals' = [withdrawals EXCEPT ![slots[s].id].status = "approved"]
    /\ Step(s, [slots[s] EXCEPT !.pc = "tx"], {<<"withdrawal", slots[s].id>>})
    /\ UNCHANGED <<users, deposits, investments, transactions, mutations, deployed, now, skew>>

\* Transaction.findOneAndUpdate, response
approveWithdrawal_part000_tx(s) ==
    /\ slots[s].pc = "tx" /\ slots[s].op = "approveWithdrawal_part000"
    /\ transactions' = findOneAndUpdate(transactions, "withdrawal_id", slots[s].id, "completed")
    /\ Step(s, Respond(slots[s], "ok"), {})
    /\ UNCHANGED <<users, deposits, withdrawals, investments, mutations, deployed, now, skew>>

\* ============================================================ investment.js
\* utils/investmentCalculations
calculateDailyEarnings(amount, daily_interest) == (amount * daily_interest) \div 100
calculateTotalReturns(amount, total_interest) == (amount * total_interest) \div 100

\* open transactions that will insert an investment at their commit
InFlightInvestments ==
    Cardinality({t \in Slots : slots[t].pc = "commit" /\ slots[t].ins})

Room == Len(investments) + InFlightInvestments < MaxInvestments
\* room for the investment an auto-renewal spawns
RenewRoom == Len(investments) + InFlightInvestments < MaxInvestments + MaxRenewals
\* the ids a request may name
InvestmentIds == 1..(MaxInvestments + MaxRenewals)

\* `new Date()` and `Date.now()` in two consecutive statements are two readings
\* of the clock: the second one
Later == now + skew

\* createInvestment: startTransaction, input and plan validation, User.findById,
\* balance check
createInvestment(s, u, p, a, auto_renew) ==
    /\ Free(s)
    /\ LET r == [Idle EXCEPT !.op = "createInvestment", !.usr = u, !.amt = a,
                             !.renew = auto_renew]
       IN IF a = 0
          THEN Step(s, Respond(r, "Plan ID and amount are required"), {})
          ELSE IF ~plan(p).is_active
          THEN Step(s, Respond(r, "Investment plan not found or inactive"), {})
          ELSE IF a < plan(p).min_amount
          THEN Step(s, Respond(r, "Minimum investment"), {})
          ELSE IF users[u].balance < a
          THEN Step(s, Respond(r, "Insufficient balance"), {})
          ELSE /\ Room
               /\ Step(s, [r EXCEPT !.pc = "commit", !.plan = p, !.ins = TRUE,
                                    !.bal = users[u].balance,
                                    !.wset = {<<"user", u>>}], {})
    /\ UNCHANGED <<users, deposits, withdrawals, investments, transactions, mutations, deployed, now, skew>>

\* createInvestment: Investment.create, user.save, Transaction.create,
\* commitTransaction
createInvestment_commit(s) ==
    /\ slots[s].pc = "commit" /\ slots[s].op = "createInvestment"
    /\ LET r == slots[s]
           i == Len(investments) + 1
       IN
       IF r.conflict
       THEN /\ Step(s, Respond(r, "Server error"), {})
            /\ UNCHANGED <<users, investments, transactions, mutations>>
       ELSE /\ investments' = Append(investments,
                  [user |-> r.usr, plan |-> r.plan, amount |-> r.amt,
                   daily_earnings |-> calculateDailyEarnings(r.amt, plan(r.plan).daily_interest),
                   total_returns |-> calculateTotalReturns(r.amt, plan(r.plan).total_interest),
                   start_date |-> NoDate,
                   end_date |-> now + plan(r.plan).duration * Day,
                   auto_renew |-> r.renew, status |-> "pending"])
            /\ users' = [users EXCEPT ![r.usr].balance = r.bal - r.amt]
            /\ transactions' = Insert(transactions,
                  Tx(transactions, r.usr, "investment", 0 - r.amt, "completed", "investment_id", i))
            /\ Record(Mutation(r.usr, 0 - r.amt, "investment_id", i))
            /\ Step(s, Respond([r EXCEPT !.id = i], "ok"), r.wset)
    /\ UNCHANGED <<deposits, withdrawals, deployed, now, skew>>

validTransitions(from) ==
    CASE from = "pending" -> {"active", "rejected"}
      [] from = "active" -> {"completed", "cancelled"}
      [] OTHER -> {}

\* updateInvestmentStatus: startTransaction, Investment.findById, transition check
updateInvestmentStatus(s, i, status) ==
    /\ Free(s)
    /\ LET r == [Idle EXCEPT !.op = "updateInvestmentStatus", !.id = i, !.st = status]
       IN IF i \notin DOMAIN investments
          THEN Step(s, Respond(r, "Investment not found"), {})
          ELSE IF status \notin validTransitions(investments[i].status)
          THEN Step(s, Respond(r, "Invalid status transition"), {})
          ELSE LET inv == investments[i]
                   spawn == status = "completed" /\ inv.auto_renew
                   touchesUser == \/ status \in {"rejected", "cancelled"}
                                  \/ status = "completed" /\ ~inv.auto_renew
               IN /\ spawn => RenewRoom
                  /\ Step(s, [r EXCEPT !.pc = "commit", !.usr = inv.user, !.amt = inv.amount,
                                       !.ins = spawn,
                                       !.bal = users[inv.user].balance,
                                       !.wset = {<<"investment", i>>} \cup
                                                (IF touchesUser THEN {<<"user", inv.user>>}
                                                 ELSE {})], {})
    /\ UNCHANGED <<users, deposits, withdrawals, investments, transactions, mutations, deployed, now, skew>>

\* updateInvestmentStatus whose renewal copies the dates of the completed
\* investment
updateInvestmentStatus_commit_mut(s) ==
    /\ slots[s].pc = "commit" /\ slots[s].op = "updateInvestmentStatus"
    /\ LET r == slots[s]
           inv == investments[r.id]
           saved == [investments EXCEPT ![r.id].status = r.st]
       IN
       IF r.conflict
       THEN /\ Step(s, Respond(r, "Server error"), {})
            /\ UNCHANGED <<users, investments, transactions, mutations>>
       ELSE /\ Step(s, Respond(r, "ok"), r.wset)
            /\ IF r.st = "active"
               THEN /\ investments' = [saved EXCEPT
                          ![r.id].start_date = now,
                          ![r.id].end_date = Later + plan(inv.plan).duration * Day]
                    /\ UNCHANGED <<users, transactions, mutations>>
               ELSE IF r.st = "completed" /\ ~inv.auto_renew
               THEN /\ users' = [users EXCEPT ![r.usr].balance = r.bal + inv.total_returns]
                    /\ transactions' = Insert(transactions,
                          Tx(transactions, r.usr, "investment_earnings", inv.total_returns, "completed",
                             "investment_id", r.id))
                    /\ Record(Mutation(r.usr, inv.total_returns, "investment_id", r.id))
                    /\ investments' = saved
               ELSE IF r.st = "completed"
               THEN /\ investments' = Append(saved,
                          [inv EXCEPT !.status = "active", !.auto_renew = TRUE])
                    /\ UNCHANGED <<users, transactions, mutations>>
               ELSE /\ users' = [users EXCEPT ![r.usr].balance = r.bal + inv.amount]
                    /\ transactions' = findOneAndUpdate(transactions, "investment_id", r.id, "failed")
                    /\ Record(Mutation(r.usr, inv.amount, "investment_id", r.id))
                    /\ investments' = saved
    /\ UNCHANGED <<deposits, withdrawals, deployed, now, skew>>

\* updateInvestmentStatus: the writes of the requested status, investment.save,
\* commitTransaction
updateInvestmentStatus_commit(s) ==
    /\ slots[s].pc = "commit" /\ slots[s].op = "updateInvestmentStatus"
    /\ LET r == slots[s]
           inv == investments[r.id]
           saved == [investments EXCEPT ![r.id].status = r.st]
       IN
       IF r.conflict
       THEN /\ Step(s, Respond(r, "Server error"), {})
            /\ UNCHANGED <<users, investments, transactions, mutations>>
       ELSE /\ Step(s, Respond(r, "ok"), r.wset)
            /\ IF r.st = "active"
               THEN /\ investments' = [saved EXCEPT
                          ![r.id].start_date = now,
                          ![r.id].end_date = Later + plan(inv.plan).duration * Day]
                    /\ UNCHANGED <<users, transactions, mutations>>
               ELSE IF r.st = "completed" /\ ~inv.auto_renew
               THEN /\ users' = [users EXCEPT ![r.usr].balance = r.bal + inv.total_returns]
                    /\ transactions' = Insert(transactions,
                          Tx(transactions, r.usr, "investment_earnings", inv.total_returns, "completed",
                             "investment_id", r.id))
                    /\ Record(Mutation(r.usr, inv.total_returns, "investment_id", r.id))
                    /\ investments' = saved
               ELSE IF r.st = "completed"
               THEN /\ investments' = Append(saved,
                          [inv EXCEPT !.status = "active", !.auto_renew = TRUE,
                                      !.start_date = now,
                                      !.end_date = Later + plan(inv.plan).duration * Day])
                    /\ UNCHANGED <<users, transactions, mutations>>
               ELSE /\ users' = [users EXCEPT ![r.usr].balance = r.bal + inv.amount]
                    /\ transactions' = findOneAndUpdate(transactions, "investment_id", r.id, "failed")
                    /\ Record(Mutation(r.usr, inv.amount, "investment_id", r.id))
                    /\ investments' = saved
    /\ UNCHANGED <<deposits, withdrawals, deployed, now, skew>>

\* ================================================== InvestmentController.js
\* createAdvancedInvestment: startTransaction, plan and range validation,
\* User.findById, balance and risk checks
createAdvancedInvestment(s, u, p, a, auto_renew) ==
    /\ Free(s)
    /\ LET r == [Idle EXCEPT !.op = "createAdvancedInvestment", !.usr = u, !.amt = a,
                             !.renew = auto_renew]
       IN IF ~plan(p).is_active
          THEN Step(s, Respond(r, "Investment plan not found or inactive"), {})
          ELSE IF a < plan(p).min_amount \/ a > plan(p).max_amount
          THEN Step(s, Respond(r, "Amount must be between"), {})
          ELSE IF users[u].balance < a
          THEN Step(s, Respond(r, "Insufficient balance"), {})
          ELSE IF plan(p).risk_level = "high" /\ risk_tolerance(u) = "low"
          THEN Step(s, Respond(r, "This plan requires higher risk tolerance"), {})
          ELSE /\ Room
               /\ Step(s, [r EXCEPT !.pc = "commit", !.plan = p, !.ins = TRUE,
                                    !.bal = users[u].balance,
                                    !.wset = {<<"user", u>>, <<"plan", p>>}], {})
    /\ UNCHANGED <<users, deposits, withdrawals, investments, transactions, mutations, deployed, now, skew>>

\* createAdvancedInvestment: Investment.create, user.save, Transaction.create,
\* InvestmentPlan.findByIdAndUpdate, commitTransaction
createAdvancedInvestment_commit(s) ==
    /\ slots[s].pc = "commit" /\ slots[s].op = "createAdvancedInvestment"
    /\ LET r == slots[s]
           i == Len(investments) + 1
       IN
       IF r.conflict
       THEN /\ Step(s, Respond(r, "Server error"), {})
            /\ UNCHANGED <<users, investments, transactions, mutations>>
       ELSE /\ investments' = Append(investments,
                  [user |-> r.usr, plan |-> r.plan, amount |-> r.amt,
                   daily_earnings |-> (r.amt * plan(r.plan).daily_interest) \div 100,
                   total_returns |-> (r.amt * plan(r.plan).total_interest) \div 100,
                   start_date |-> NoDate,
                   end_date |-> now + plan(r.plan).duration * Day,
                   auto_renew |-> r.renew, status |-> "active"])
            /\ users' = [users EXCEPT ![r.usr].balance = r.bal - r.amt,
                                      ![r.usr].total_invested = @ + r.amt]
            /\ transactions' = Insert(transactions,
                  Tx(transactions, r.usr, "investment", 0 - r.amt, "completed", "investment_id", i))
            /\ Record(Mutation(r.usr, 0 - r.amt, "investment_id", i))
            /\ Step(s, Respond([r EXCEPT !.id = i], "ok"), r.wset)
    /\ UNCHANGED <<deposits, withdrawals, deployed, now, skew>>

\* ========================================= admin controller.js: investments
\* investment.amount * 0.20
ReferralBonus(a) == (a * BonusPercent) \div 100

\* approveInvestment: startTransaction, Investment.findById, status check
approveInvestment(s, i) ==
    /\ Free(s)
    /\ deployed = "admin controller.js"
    /\ LET r == [Idle EXCEPT !.op = "approveInvestment", !.id = i]
       IN IF i \notin DOMAIN investments
          THEN Step(s, Respond(r, "Investment not found"), {})
          ELSE IF investments[i].status # "pending"
          THEN Step(s, Respond(r, "Investment already processed"), {})
          ELSE Step(s, [r EXCEPT !.pc = "commit", !.usr = investments[i].user,
                                 !.amt = investments[i].amount,
                                 !.wset = {<<"investment", i>>}], {})
    /\ UNCHANGED <<users, deposits, withdrawals, investments, transactions, mutations, deployed, now, skew>>

\* approveInvestment: investment.save, findOneAndUpdate, commitTransaction; the
\* referral bonus follows when the investor was referred
approveInvestment_commit(s) ==
    /\ slots[s].pc = "commit" /\ slots[s].op = "approveInvestment"
    /\ LET r == slots[s] IN
       IF r.conflict
       THEN /\ Step(s, Respond(r, "Server error"), {})
            /\ UNCHANGED <<investments, transactions>>
       ELSE /\ investments' = [investments EXCEPT
                  ![r.id].status = "active",
                  ![r.id].start_date = now,
                  ![r.id].end_date = Later + plan(investments[r.id].plan).duration * Day]
            /\ transactions' = findOneAndUpdate(transactions, "investment_id", r.id, "completed")
            /\ IF referred_by(r.usr) # NoUser
               THEN Step(s, [r EXCEPT !.pc = "bonus_inc", !.wset = {}], r.wset)
               ELSE Step(s, Respond(r, "ok"), r.wset)
    /\ UNCHANGED <<users, deposits, withdrawals, mutations, deployed, now, skew>>

\* approveInvestment: User.findByIdAndUpdate($inc balance, referral_earnings)
approveInvestment_bonus_inc(s) ==
    /\ slots[s].pc = "bonus_inc" /\ slots[s].op = "approveInvestment"
    /\ LET r == slots[s]
           ref == referred_by(r.usr)
           bonus == ReferralBonus(r.amt)
       IN /\ users' = [users EXCEPT ![ref].balance = @ + bonus,
                                    ![ref].referral_earnings = @ + bonus]
          /\ Record(BonusMutation(ref, bonus, r.usr))
          /\ Step(s, [r EXCEPT !.pc = "bonus_tx"], {<<"user", ref>>})
    /\ UNCHANGED <<deposits, withdrawals, investments, transactions, deployed, now, skew>>

\* approveInvestment: Transaction.create(referral_bonus), response
approveInvestment_bonus_tx(s) ==
    /\ slots[s].pc = "bonus_tx" /\ slots[s].op = "approveInvestment"
    /\ LET r == slots[s] IN
          /\ transactions' = Insert(transactions,
                BonusTx(transactions, referred_by(r.usr), ReferralBonus(r.amt), r.usr, r.amt))
          /\ Step(s, Respond(r, "ok"), {})
    /\ UNCHANGED <<users, deposits, withdrawals, investments, mutations, deployed, now, skew>>

\* rejectInvestment with the status check failing only for an investment that is
\* already rejected
rejectInvestment_mut(s, i) ==
    /\ Free(s)
    /\ deployed = "admin controller.js"
    /\ LET r == [Idle EXCEPT !.op = "rejectInvestment", !.id = i]
       IN IF i \notin DOMAIN investments
          THEN Step(s, Respond(r, "Investment not found"), {})
          ELSE IF investments[i].status = "rejected"
          THEN Step(s, Respond(r, "Investment already processed"), {})
          ELSE Step(s, [r EXCEPT !.pc = "commit", !.usr = investments[i].user,
                                 !.amt = investments[i].amount,
                                 !.bal = users[investments[i].user].balance,
                                 !.wset = {<<"investment", i>>,
                                           <<"user", investments[i].user>>}], {})
    /\ UNCHANGED <<users, deposits, withdrawals, investments, transactions, mutations, deployed, now, skew>>

\* rejectInvestment: startTransaction, Investment.findById, status check
rejectInvestment(s, i) ==
    /\ Free(s)
    /\ deployed = "admin controller.js"
    /\ LET r == [Idle EXCEPT !.op = "rejectInvestment", !.id = i]
       IN IF i \notin DOMAIN investments
          THEN Step(s, Respond(r, "Investment not found"), {})
          ELSE IF investments[i].status # "pending"
          THEN Step(s, Respond(r, "Investment already processed"), {})
          ELSE Step(s, [r EXCEPT !.pc = "commit", !.usr = investments[i].user,
                                 !.amt = investments[i].amount,
                                 !.bal = users[investments[i].user].balance,
                                 !.wset = {<<"investment", i>>,
                                           <<"user", investments[i].user>>}], {})
    /\ UNCHANGED <<users, deposits, withdrawals, investments, transactions, mutations, deployed, now, skew>>

\* rejectInvestment that rejects without the refund
rejectInvestment_commit_mut(s) ==
    /\ slots[s].pc = "commit" /\ slots[s].op = "rejectInvestment"
    /\ LET r == slots[s] IN
       IF r.conflict
       THEN /\ Step(s, Respond(r, "Server error"), {})
            /\ UNCHANGED <<users, investments, transactions, mutations>>
       ELSE /\ investments' = [investments EXCEPT ![r.id].status = "rejected"]
            /\ transactions' = findOneAndUpdate(transactions, "investment_id", r.id, "failed")
            /\ Step(s, Respond(r, "ok"), r.wset)
            /\ UNCHANGED <<users, mutations>>
    /\ UNCHANGED <<deposits, withdrawals, deployed, now, skew>>

\* rejectInvestment: investment.save, user.save (refund), findOneAndUpdate,
\* commitTransaction
rejectInvestment_commit(s) ==
    /\ slots[s].pc = "commit" /\ slots[s].op = "rejectInvestment"
    /\ LET r == slots[s] IN
       IF r.conflict
       THEN /\ Step(s, Respond(r, "Server error"), {})
            /\ UNCHANGED <<users, investments, transactions, mutations>>
       ELSE /\ investments' = [investments EXCEPT ![r.id].status = "rejected"]
            /\ users' = [users EXCEPT ![r.usr].balance = r.bal + r.amt]
            /\ transactions' = findOneAndUpdate(transactions, "investment_id", r.id, "failed")
            /\ Record(Mutation(r.usr, r.amt, "investment_id", r.id))
            /\ Step(s, Respond(r, "ok"), r.wset)
    /\ UNCHANGED <<deposits, withdrawals, deployed, now, skew>>

\* ==================================================== part_000: investments
\* approveInvestment (no session): Investment.findById, status and balance checks
approveInvestment_part000(s, i) ==
    /\ Free(s)
    /\ deployed = "part_000"
    /\ LET r == [Idle EXCEPT !.op = "approveInvestment_part000", !.id = i]
       IN IF i \notin DOMAIN investments
          THEN Step(s, Respond(r, "Investment not found"), {})
          ELSE IF investments[i].status # "pending"
          THEN Step(s, Respond(r, "Investment already processed"), {})
          ELSE IF users[investments[i].user].balance < investments[i].amount
          THEN Step(s, Respond(r, "User has insufficient balance"), {})
          ELSE Step(s, [r EXCEPT !.pc = "save", !.usr = investments[i].user,
                                 !.amt = investments[i].amount], {})
    /\ UNCHANGED <<users, deposits, withdrawals, investments, transactions, mutations, deployed, now, skew>>

\* investment.save
approveInvestment_part000_save(s) ==
    /\ slots[s].pc = "save" /\ slots[s].op = "approveInvestment_part000"
    /\ investments' = [investments EXCEPT
          ![slots[s].id].status = "active",
          ![slots[s].id].start_date = now,
          ![slots[s].id].end_date = Later + plan(investments[slots[s].id].plan).duration * Day]
    /\ Step(s, [slots[s] EXCEPT !.pc = "inc"], {<<"investment", slots[s].id>>})
    /\ UNCHANGED <<users, deposits, withdrawals, transactions, mutations, deployed, now, skew>>

\* User.findByIdAndUpdate($inc balance: -amount)
approveInvestment_part000_inc(s) ==
    /\ slots[s].pc = "inc" /\ slots[s].op = "approveInvestment_part000"
    /\ users' = [users EXCEPT ![slots[s].usr].balance = @ - slots[s].amt]
    /\ Record(Mutation(slots[s].usr, 0 - slots[s].amt, "investment_id", slots[s].id))
    /\ Step(s, [slots[s] EXCEPT !.pc = "tx"], {<<"user", slots[s].usr>>})
    /\ UNCHANGED <<deposits, withdrawals, investments, transactions, deployed, now, skew>>

\* Transaction.findOneAndUpdate, response
approveInvestment_part000_tx(s) ==
    /\ slots[s].pc = "tx" /\ slots[s].op = "approveInvestment_part000"
    /\ transactions' = findOneAndUpdate(transactions, "investment_id", slots[s].id, "completed")
    /\ Step(s, Respond(slots[s], "ok"), {})
    /\ UNCHANGED <<users, deposits, withdrawals, investments, mutations, deployed, now, skew>>

\* ======================================================== referralController
BonusEntries ==
    Cardinality({t \in transactions : t.type = "referral_bonus"})
InFlightBonus ==
    Cardinality({t \in Slots : slots[t].op = "processReferralBonus"
                                      /\ slots[t].pc \in {"inc", "tx"}})

\* processReferralBonus: User.findById, referred_by check
processReferralBonus(s, referral_user_id, investment_amount) ==
    /\ Free(s)
    /\ LET r == [Idle EXCEPT !.op = "processReferralBonus", !.usr = referral_user_id,
                             !.amt = investment_amount]
       IN IF referral_user_id \notin Users \/ referred_by(referral_user_id) = NoUser
          THEN Step(s, Respond(r, "Referral user not found or not referred"), {})
          ELSE /\ BonusEntries + InFlightBonus < MaxBonus
               /\ Step(s, [r EXCEPT !.pc = "inc"], {})
    /\ UNCHANGED <<users, deposits, withdrawals, investments, transactions, mutations, deployed, now, skew>>

\* processReferralBonus: User.findByIdAndUpdate($inc balance, referral_earnings)
processReferralBonus_inc(s) ==
    /\ slots[s].pc = "inc" /\ slots[s].op = "processReferralBonus"
    /\ LET r == slots[s]
           ref == referred_by(r.usr)
           bonusAmount == ReferralBonus(r.amt)
       IN /\ users' = [users EXCEPT ![ref].balance = @ + bonusAmount,
                                    ![ref].referral_earnings = @ + bonusAmount]
          /\ Record(BonusMutation(ref, bonusAmount, r.usr))
          /\ Step(s, [r EXCEPT !.pc = "tx"], {<<"user", ref>>})
    /\ UNCHANGED <<deposits, withdrawals, investments, transactions, deployed, now, skew>>

\* processReferralBonus: Transaction.create(referral_bonus), response
processReferralBonus_tx(s) ==
    /\ slots[s].pc = "tx" /\ slots[s].op = "processReferralBonus"
    /\ LET r == slots[s] IN
          /\ transactions' = Insert(transactions,
                BonusTx(transactions, referred_by(r.usr), ReferralBonus(r.amt), r.usr, r.amt))
          /\ Step(s, Respond(r, "ok"), {})
    /\ UNCHANGED <<users, deposits, withdrawals, investments, mutations, deployed, now, skew>>

\* ================================================== the returns calculators
\* investmentPlanSchema.methods.calculateReturns: throws for an amount outside
\* [min_amount, max_amount], else the returns
plan_calculateReturns(p, amount) ==
    IF amount < plan(p).min_amount \/ amount > plan(p).max_amount
    THEN [thrown |-> TRUE, total_return |-> 0]
    ELSE [thrown |-> FALSE, total_return |-> (amount * plan(p).total_interest) \div 100]

\* the answer of a calculator: the request with the outcome and the total computed
Calculated(r, msg, total) == [Respond(r, msg) EXCEPT !.amt = r.amt, !.plan = r.plan, !.bal = total]

\* calculateReturns (investment.js): input check, plan lookup, minimum check,
\* calculation, response
calculateReturns(s, p, a) ==
    /\ Free(s)
    /\ LET r == [Idle EXCEPT !.op = "calculateReturns", !.amt = a, !.plan = p]
       IN IF a = 0
          THEN Step(s, Calculated(r, "Plan ID and amount are required", 0), {})
          ELSE IF a < plan(p).min_amount
          THEN Step(s, Calculated(r, "Amount below minimum investment", 0), {})
          ELSE Step(s, Calculated(r, "ok", calculateTotalReturns(a, plan(p).total_interest)), {})
    /\ UNCHANGED <<users, deposits, withdrawals, investments, transactions, mutations, deployed, now, skew>>

\* calculateAdvancedReturns (InvestmentController.js): plan lookup, range check,
\* plan.calculateReturns within the response; a throw ends in the catch block
calculateAdvancedReturns(s, p, a) ==
    /\ Free(s)
    /\ LET r == [Idle EXCEPT !.op = "calculateAdvancedReturns", !.amt = a, !.plan = p]
           basic == plan_calculateReturns(p, a)
       IN IF a < plan(p).min_amount \/ a > plan(p).max_amount
          THEN Step(s, Calculated(r, "Investment amount must be between", 0), {})
          ELSE IF basic.thrown
          THEN Step(s, Calculated(r, "Server error", 0), {})
          ELSE Step(s, Calculated(r, "ok", basic.total_return), {})
    /\ UNCHANGED <<users, deposits, withdrawals, investments, transactions, mutations, deployed, now, skew>>

\* ------------------------------------------------------------ the response
\* the handler has answered; its slot is free for the next request
Finish(s) ==
    /\ slots[s].pc = "done"
    /\ Step(s, Idle, {})
    /\ UNCHANGED <<users, deposits, withdrawals, investments, transactions, mutations, deployed, now, skew>>

\* time passes
Tick ==
    /\ now < MaxClock
    /\ now' = now + 1
    /\ UNCHANGED <<users, deposits, withdrawals, investments, transactions, slots, mutations,
                   deployed, skew>>

\* a rejecting operation that always ends in the handler's outer catch block
Throw_mut(s) ==
    /\ slots[s].pc \notin {"idle", "off", "done"}
    /\ Step(s, Respond(slots[s], "Server error"), {})
    /\ UNCHANGED <<users, deposits, withdrawals, investments, transactions, mutations,
                   deployed, now, skew>>

\* The awaited operation the handler in slot s is about to run rejects.  The
\* catch block aborts the transaction when there is one and answers 500; what a
\* handler without a session has written stays.  approveInvestment catches a
\* failure of its referral bonus, logs it and goes on to answer success.
Throw(s) ==
    /\ slots[s].pc \notin {"idle", "off", "done"}
    /\ LET r == slots[s]
           isolated == r.op = "approveInvestment" /\ r.pc \in {"bonus_inc", "bonus_tx"}
       IN Step(s, Respond(r, IF isolated THEN "ok" ELSE "Server error"), {})
    /\ UNCHANGED <<users, deposits, withdrawals, investments, transactions, mutations,
                   deployed, now, skew>>

\* the handlers that open a session and write inside its transaction
Transactional == {"createInvestment", "createAdvancedInvestment", "updateInvestmentStatus",
                  "approveDeposit", "approveWithdrawal", "rejectWithdrawal",
                  "approveInvestment", "rejectInvestment"}

\* the answer of middleware/errorHandler to an error that a handler let escape
errorHandler == "Server error"

\* A socket emit (or the read that fills the response) of the handler in slot s
\* throws.  After the writes, the success response not yet sent: the catch block
\* answers 500; in a handler with a session its abortTransaction rejects, the
\* transaction being committed, and the error escapes to errorHandler.  At the
\* auto-renew emit of updateInvestmentStatus, inside the transaction: the catch
\* block aborts the transaction and answers 500.
NotifyThrow(s) ==
    /\ IF slots[s].pc = "commit"
       THEN /\ slots[s].op = "updateInvestmentStatus" /\ slots[s].ins
            /\ Step(s, Respond(slots[s], "Server error"), {})
       ELSE /\ slots[s].pc = "done" /\ slots[s].result = "ok"
            /\ slots[s].op # "processReferralBonus"
            /\ Step(s, [slots[s] EXCEPT !.result = IF slots[s].op \in Transactional
                                                   THEN errorHandler
                                                   ELSE "Server error"], {})
    /\ UNCHANGED <<users, deposits, withdrawals, investments, transactions, mutations,
                   deployed, now, skew>>

\* ------------------------------------------------------- requests and steps
\* every request; a handler in flight takes its next step
Next ==
    \E s \in Slots :
        \/ \E u \in Requesters, a \in CashAmounts : createDeposit(s, u, a)
        \/ createDeposit_tx(s)
        \/ \E d \in 1..MaxDeposits : approveDeposit(s, d)
        \/ approveDeposit_commit(s)
        \/ \E d \in 1..MaxDeposits : rejectDeposit(s, d)
        \/ rejectDeposit_save(s)
        \/ rejectDeposit_tx(s)
        \/ \E d \in 1..MaxDeposits : approveDeposit_part000(s, d)
        \/ approveDeposit_part000_save(s)
        \/ approveDeposit_part000_inc(s)
        \/ approveDeposit_part000_tx(s)
        \/ \E u \in Requesters, a \in CashAmounts : createWithdrawal(s, u, a)
        \/ createWithdrawal_create(s)
        \/ createWithdrawal_tx(s)
        \/ \E w \in 1..MaxWithdrawals : approveWithdrawal(s, w)
        \/ approveWithdrawal_commit(s)
        \/ \E w \in 1..MaxWithdrawals : rejectWithdrawal(s, w)
        \/ rejectWithdrawal_commit(s)
        \/ \E w \in 1..MaxWithdrawals : approveWithdrawal_part000(s, w)
        \/ approveWithdrawal_part000_save(s)
        \/ approveWithdrawal_part000_tx(s)
        \/ \E u \in Requesters, p \in Plans, a \in Amounts, b \in BOOLEAN :
              createInvestment(s, u, p, a, b)
        \/ createInvestment_commit(s)
        \/ \E i \in InvestmentIds, st \in Statuses : updateInvestmentStatus(s, i, st)
        \/ updateInvestmentStatus_commit(s)
        \/ \E u \in Requesters, p \in Plans, a \in Amounts, b \in BOOLEAN :
              createAdvancedInvestment(s, u, p, a, b)
        \/ createAdvancedInvestment_commit(s)
        \/ \E i \in InvestmentIds : approveInvestment(s, i)
        \/ approveInvestment_commit(s)
        \/ approveInvestment_bonus_inc(s)
        \/ approveInvestment_bonus_tx(s)
        \/ \E i \in InvestmentIds : rejectInvestment(s, i)
        \/ rejectInvestment_commit(s)
        \/ \E i \in InvestmentIds : approveInvestment_part000(s, i)
        \/ approveInvestment_part000_save(s)
        \/ approveInvestment_part000_inc(s)
        \/ approveInvestment_part000_tx(s)
        \/ \E u \in Users, a \in BonusAmounts : processReferralBonus(s, u, a)
        \/ processReferralBonus_inc(s)
        \/ processReferralBonus_tx(s)
        \/ Finish(s)

\* requests about deposits
NextConcDeposit ==
    \E s \in Slots :
        \/ \E u \in Requesters, a \in ConcAmounts : createDeposit(s, u, a)
        \/ createDeposit_tx(s)
        \/ \E d \in 1..MaxDeposits : approveDeposit(s, d)
        \/ approveDeposit_commit(s)
        \/ \E d \in 1..MaxDeposits : rejectDeposit(s, d)
        \/ rejectDeposit_save(s)
        \/ rejectDeposit_tx(s)
        \/ \E d \in 1..MaxDeposits : approveDeposit_part000(s, d)
        \/ approveDeposit_part000_save(s)
        \/ approveDeposit_part000_inc(s)
        \/ approveDeposit_part000_tx(s)
        \/ Finish(s)

\* requests about investments and referral bonuses
NextConcInvestment ==
    \E s \in Slots :
        \/ \E u \in Requesters, p \in Plans, a \in ConcAmounts, b \in {FALSE} :
              createInvestment(s, u, p, a, b)
        \/ createInvestment_commit(s)
        \/ \E i \in InvestmentIds, st \in Statuses : updateInvestmentStatus(s, i, st)
        \/ updateInvestmentStatus_commit(s)
        \/ \E u \in Requesters, p \in Plans, a \in ConcAmounts, b \in {FALSE} :
              createAdvancedInvestment(s, u, p, a, b)
        \/ createAdvancedInvestment_commit(s)
        \/ \E i \in InvestmentIds : approveInvestment(s, i)
        \/ approveInvestment_commit(s)
        \/ approveInvestment_bonus_inc(s)
        \/ approveInvestment_bonus_tx(s)
        \/ \E i \in InvestmentIds : rejectInvestment(s, i)
        \/ rejectInvestment_commit(s)
        \/ \E i \in InvestmentIds : approveInvestment_part000(s, i)
        \/ approveInvestment_part000_save(s)
        \/ approveInvestment_part000_inc(s)
        \/ approveInvestment_part000_tx(s)
        \/ \E u \in Users, a \in BonusAmounts : processReferralBonus(s, u, a)
        \/ processReferralBonus_inc(s)
        \/ processReferralBonus_tx(s)
        \/ Finish(s)

\* the lifecycle of an entity: creation, approval, rejection, status update,
\* with one amount
NextLifecycle ==
    \E s \in Slots :
        \/ \E u \in Requesters, a \in ConcAmounts : createDeposit(s, u, a)
        \/ createDeposit_tx(s)
        \/ \E d \in 1..MaxDeposits : approveDeposit(s, d)
        \/ approveDeposit_commit(s)
        \/ \E d \in 1..MaxDeposits : rejectDeposit(s, d)
        \/ rejectDeposit_save(s)
        \/ rejectDeposit_tx(s)
        \/ \E u \in Requesters, a \in ConcAmounts : createWithdrawal(s, u, a)
        \/ createWithdrawal_create(s)
        \/ createWithdrawal_tx(s)
        \/ \E w \in 1..MaxWithdrawals : approveWithdrawal(s, w)
        \/ approveWithdrawal_commit(s)
        \/ \E w \in 1..MaxWithdrawals : rejectWithdrawal(s, w)
        \/ rejectWithdrawal_commit(s)
        \/ \E u \in Requesters, p \in Plans, a \in ConcAmounts, b \in {FALSE} :
              createInvestment(s, u, p, a, b)
        \/ createInvestment_commit(s)
        \/ \E u \in Requesters, p \in Plans, a \in ConcAmounts, b \in {FALSE} :
              createAdvancedInvestment(s, u, p, a, b)
        \/ createAdvancedInvestment_commit(s)
        \/ \E i \in InvestmentIds, st \in Statuses : updateInvestmentStatus(s, i, st)
        \/ updateInvestmentStatus_commit(s)
        \/ \E i \in InvestmentIds : approveInvestment(s, i)
        \/ approveInvestment_commit(s)
        \/ approveInvestment_bonus_inc(s)
        \/ approveInvestment_bonus_tx(s)
        \/ \E i \in InvestmentIds : rejectInvestment(s, i)
        \/ rejectInvestment_commit(s)
        \/ \E d \in 1..MaxDeposits : approveDeposit_part000(s, d)
        \/ approveDeposit_part000_save(s)
        \/ approveDeposit_part000_inc(s)
        \/ approveDeposit_part000_tx(s)
        \/ \E w \in 1..MaxWithdrawals : approveWithdrawal_part000(s, w)
        \/ approveWithdrawal_part000_save(s)
        \/ approveWithdrawal_part000_tx(s)
        \/ \E i \in InvestmentIds : approveInvestment_part000(s, i)
        \/ approveInvestment_part000_save(s)
        \/ approveInvestment_part000_inc(s)
        \/ approveInvestment_part000_tx(s)
        \/ Finish(s)

\* requests that change the balance of one user: deposit approval, withdrawal
\* rejection, investment creation
NextConcBalance ==
    \E s \in Slots :
        \/ \E u \in Requesters, a \in ConcAmounts : createDeposit(s, u, a)
        \/ createDeposit_tx(s)
        \/ \E d \in 1..MaxDeposits : approveDeposit(s, d)
        \/ approveDeposit_commit(s)
        \/ \E d \in 1..MaxDeposits : approveDeposit_part000(s, d)
        \/ approveDeposit_part000_save(s)
        \/ approveDeposit_part000_inc(s)
        \/ approveDeposit_part000_tx(s)
        \/ \E u \in Requesters, a \in ConcAmounts : createWithdrawal(s, u, a)
        \/ createWithdrawal_create(s)
        \/ createWithdrawal_tx(s)
        \/ \E w \in 1..MaxWithdrawals : rejectWithdrawal(s, w)
        \/ rejectWithdrawal_commit(s)
        \/ \E u \in Requesters, p \in Plans, a \in ConcAmounts, b \in {FALSE} :
              createInvestment(s, u, p, a, b)
        \/ createInvestment_commit(s)
        \/ Finish(s)

\* deposits and withdrawals, where an awaited operation may reject
NextFail ==
    \E s \in Slots :
        \/ \E u \in Requesters, a \in ConcAmounts : createDeposit(s, u, a)
        \/ createDeposit_tx(s)
        \/ \E d \in 1..MaxDeposits : approveDeposit(s, d)
        \/ approveDeposit_commit(s)
        \/ \E d \in 1..MaxDeposits : rejectDeposit(s, d)
        \/ rejectDeposit_save(s)
        \/ rejectDeposit_tx(s)
        \/ \E d \in 1..MaxDeposits : approveDeposit_part000(s, d)
        \/ approveDeposit_part000_save(s)
        \/ approveDeposit_part000_inc(s)
        \/ approveDeposit_part000_tx(s)
        \/ \E u \in Requesters, a \in ConcAmounts : createWithdrawal(s, u, a)
        \/ createWithdrawal_create(s)
        \/ createWithdrawal_tx(s)
        \/ \E w \in 1..MaxWithdrawals : approveWithdrawal(s, w)
        \/ approveWithdrawal_commit(s)
        \/ \E w \in 1..MaxWithdrawals : rejectWithdrawal(s, w)
        \/ rejectWithdrawal_commit(s)
        \/ Throw(s)
        \/ Finish(s)

\* investments, where an awaited operation may reject
NextFailInvestment ==
    \E s \in Slots :
        \/ \E u \in Requesters, p \in Plans, a \in ConcAmounts, b \in {FALSE} :
              createInvestment(s, u, p, a, b)
        \/ createInvestment_commit(s)
        \/ \E i \in InvestmentIds, st \in Statuses : updateInvestmentStatus(s, i, st)
        \/ updateInvestmentStatus_commit(s)
        \/ \E i \in InvestmentIds : approveInvestment(s, i)
        \/ approveInvestment_commit(s)
        \/ approveInvestment_bonus_inc(s)
        \/ approveInvestment_bonus_tx(s)
        \/ \E i \in InvestmentIds : rejectInvestment(s, i)
        \/ rejectInvestment_commit(s)
        \/ \E i \in InvestmentIds : approveInvestment_part000(s, i)
        \/ approveInvestment_part000_save(s)
        \/ approveInvestment_part000_inc(s)
        \/ approveInvestment_part000_tx(s)
        \/ Throw(s)
        \/ Finish(s)

\* the life of an investment with or without auto_renew, while time passes
NextRenew ==
    \/ \E s \in Slots :
        \/ \E u \in Requesters, p \in Plans, a \in ConcAmounts, b \in BOOLEAN :
              createInvestment(s, u, p, a, b)
        \/ createInvestment_commit(s)
        \/ \E i \in InvestmentIds, st \in Statuses : updateInvestmentStatus(s, i, st)
        \/ updateInvestmentStatus_commit(s)
        \/ Finish(s)
    \/ Tick

\* requests of every kind with amounts below, within and above the limits, and
\* requests for entities in every status
NextValidation ==
    \E s \in Slots :
        \/ \E u \in Requesters, a \in CashAmounts : createDeposit(s, u, a)
        \/ createDeposit_tx(s)
        \/ \E d \in 1..MaxDeposits : approveDeposit(s, d)
        \/ approveDeposit_commit(s)
        \/ \E u \in Requesters, a \in CashAmounts : createWithdrawal(s, u, a)
        \/ createWithdrawal_create(s)
        \/ createWithdrawal_tx(s)
        \/ \E u \in Requesters, p \in Plans, a \in Amounts, b \in {FALSE} :
              createInvestment(s, u, p, a, b)
        \/ createInvestment_commit(s)
        \/ \E u \in Requesters, p \in Plans, a \in Amounts, b \in {FALSE} :
              createAdvancedInvestment(s, u, p, a, b)
        \/ createAdvancedInvestment_commit(s)
        \/ \E i \in InvestmentIds, st \in Statuses : updateInvestmentStatus(s, i, st)
        \/ updateInvestmentStatus_commit(s)
        \/ Finish(s)

\* deposits and investments, where a notification may fail
NextNotify ==
    \E s \in Slots :
        \/ \E u \in Requesters, a \in ConcAmounts : createDeposit(s, u, a)
        \/ createDeposit_tx(s)
        \/ \E d \in 1..MaxDeposits : approveDeposit(s, d)
        \/ approveDeposit_commit(s)
        \/ \E u \in Requesters, p \in Plans, a \in ConcAmounts, b \in BOOLEAN :
              createInvestment(s, u, p, a, b)
        \/ createInvestment_commit(s)
        \/ \E i \in InvestmentIds, st \in Statuses : updateInvestmentStatus(s, i, st)
        \/ updateInvestmentStatus_commit(s)
        \/ NotifyThrow(s)
        \/ Finish(s)

\* the same, where an awaited operation may reject as well
NextFailNotify ==
    \E s \in Slots :
        \/ \E u \in Requesters, a \in ConcAmounts : createDeposit(s, u, a)
        \/ createDeposit_tx(s)
        \/ \E d \in 1..MaxDeposits : approveDeposit(s, d)
        \/ approveDeposit_commit(s)
        \/ \E u \in Requesters, p \in Plans, a \in ConcAmounts, b \in BOOLEAN :
              createInvestment(s, u, p, a, b)
        \/ createInvestment_commit(s)
        \/ \E i \in InvestmentIds, st \in Statuses : updateInvestmentStatus(s, i, st)
        \/ updateInvestmentStatus_commit(s)
        \/ Throw(s)
        \/ NotifyThrow(s)
        \/ Finish(s)

\* withdrawals only, a user requesting more than one
NextWithdrawal ==
    \E s \in Slots :
        \/ \E u \in Requesters, a \in Amounts :
              createWithdrawal_within(s, u, a, MaxWithdrawals + MaxRepeats)
        \/ createWithdrawal_create(s)
        \/ createWithdrawal_tx(s)
        \/ \E w \in WithdrawalIds : approveWithdrawal(s, w)
        \/ approveWithdrawal_commit(s)
        \/ \E w \in WithdrawalIds : rejectWithdrawal(s, w)
        \/ rejectWithdrawal_commit(s)
        \/ \E w \in WithdrawalIds : approveWithdrawal_part000(s, w)
        \/ approveWithdrawal_part000_save(s)
        \/ approveWithdrawal_part000_tx(s)
        \/ Finish(s)

\* the calculators, asked before and after an investment is made
NextReturns ==
    \E s \in Slots :
        \/ \E p \in Plans, a \in Amounts : calculateReturns(s, p, a)
        \/ \E p \in Plans, a \in Amounts : calculateAdvancedReturns(s, p, a)
        \/ \E u \in Requesters, p \in Plans, a \in Amounts, b \in BOOLEAN :
              createInvestment(s, u, p, a, b)
        \/ createInvestment_commit(s)
        \/ Finish(s)

\* the two ways of rejecting an investment, two requests at a time
NextReject ==
    \E s \in Slots :
        \/ \E u \in Requesters, p \in Plans, a \in Amounts, b \in {FALSE} :
              createInvestment(s, u, p, a, b)
        \/ createInvestment_commit(s)
        \/ \E i \in InvestmentIds : rejectInvestment(s, i)
        \/ rejectInvestment_commit(s)
        \/ \E i \in InvestmentIds, st \in Statuses : updateInvestmentStatus(s, i, st)
        \/ updateInvestmentStatus_commit(s)
        \/ Finish(s)

\* ================================================================ properties
RECURSIVE SumAmounts(_)
SumAmounts(S) ==
    IF S = {} THEN 0
    ELSE LET t == CHOOSE x \in S : TRUE IN t.amount + SumAmounts(S \ {t})

\* the completed ledger entries of user u, credits positive and debits negative
LedgerSum(u) == SumAmounts({t \in transactions : t.user = u /\ t.status = "completed"})

RECURSIVE SumDeltas(_)
SumDeltas(S) ==
    IF S = {} THEN 0
    ELSE LET m == CHOOSE x \in S : TRUE
         IN m.delta * CopiesIn(m, mutations) + SumDeltas(S \ {m})

\* what the balance changes made for one entity add up to
NetDelta(key, ref) ==
    SumDeltas({m \in BagToSet(mutations) : m.key = key /\ m.ref = ref})

\* C1: in every reachable state, whatever the interleaving of the handlers,
\* every user's balance is >= 0.
C1_BalanceNonNegative == \A u \in Users : users[u].balance >= 0

\* C2: whenever no handler is running, a user's balance is the initial balance
\* plus the completed credit entries minus the completed debit entries of the
\* user's ledger.
C2_BalanceIsLedgerSum ==
    Quiescent => \A u \in Users : users[u].balance = InitBalance(u) + LedgerSum(u)

\* C3: a deposit's amount is credited to the balance at most once, however
\* often and however concurrently approveDeposit is invoked for it.
C3_DepositCreditedOnce ==
    \A d \in DOMAIN deposits :
        CopiesIn(Mutation(deposits[d].user, deposits[d].amount, "deposit_id", d), mutations) <= 1

\* C4: for every investment the referral bonus is applied to the referrer at
\* most once: at most one balance credit and at most one referral_bonus entry.
C4_BonusOncePerInvestment ==
    \A i \in DOMAIN investments :
        LET inv == investments[i]
            ref == referred_by(inv.user)
        IN /\ CopiesIn(BonusMutation(ref, ReferralBonus(inv.amount), inv.user), mutations) <= 1
           /\ Cardinality({t \in transactions :
                              /\ t.type = "referral_bonus"
                              /\ t.referral_user_id = inv.user
                              /\ t.investment_amount = inv.amount}) <= 1

\* C5: createWithdrawal followed by rejectWithdrawal leaves the balance as it
\* was before createWithdrawal: the balance changes made for a rejected
\* withdrawal add up to zero.
C5_CreateRejectRestores ==
    \A w \in DOMAIN withdrawals :
        withdrawals[w].status = "rejected" => NetDelta("withdrawal_id", w) = 0

\* C6: a created withdrawal has its amount reserved: as soon as the pending
\* Withdrawal exists, the balance has been reduced by its amount and a pending
\* ledger entry of minus the amount is correlated to it.
C6_WithdrawalReserved ==
    \A w \in DOMAIN withdrawals :
        withdrawals[w].status = "pending" =>
            /\ NetDelta("withdrawal_id", w) = 0 - withdrawals[w].amount
            /\ \E t \in transactions :
                  /\ t.key = "withdrawal_id" /\ t.ref = w
                  /\ t.status = "pending" /\ t.amount = 0 - withdrawals[w].amount

DepositEdges == {<<"pending", "approved">>, <<"pending", "rejected">>}
WithdrawalEdges == {<<"pending", "approved">>, <<"pending", "rejected">>,
                    <<"approved", "processing">>, <<"processing", "completed">>}
InvestmentEdges == {<<"pending", "active">>, <<"pending", "rejected">>,
                    <<"active", "completed">>, <<"active", "cancelled">>}
DepositTerminal == {"approved", "rejected", "cancelled"}
WithdrawalTerminal == {"rejected", "completed"}
InvestmentTerminal == {"completed", "cancelled", "rejected"}

\* the step changes coll[k] only along an edge, and not at all once terminal
FollowsTable(old, new, edges, terminal) ==
    \A k \in DOMAIN old :
        /\ new[k].status # old[k].status => <<old[k].status, new[k].status>> \in edges
        /\ old[k].status \in terminal => new[k] = old[k]

\* C7: every change of status of a Deposit, Withdrawal or Investment follows an
\* edge of the transition table, and an entity in a terminal status is not
\* changed any more.
C7_TransitionsFollowTable ==
    [][/\ FollowsTable(deposits, deposits', DepositEdges, DepositTerminal)
       /\ FollowsTable(withdrawals, withdrawals', WithdrawalEdges, WithdrawalTerminal)
       /\ FollowsTable(investments, investments', InvestmentEdges, InvestmentTerminal)]_vars

\* the request that slot record r answers is a reject of an entity that is
\* approved, active or completed
RejectOfProcessed(r) ==
    \/ /\ r.op = "rejectDeposit" /\ r.id \in DOMAIN deposits
       /\ deposits[r.id].status = "approved"
    \/ /\ r.op = "rejectWithdrawal" /\ r.id \in DOMAIN withdrawals
       /\ withdrawals[r.id].status \in {"approved", "completed"}
    \/ /\ r.op = "rejectInvestment" \/ (r.op = "updateInvestmentStatus" /\ r.st = "rejected")
       /\ r.id \in DOMAIN investments
       /\ investments[r.id].status \in {"active", "completed"}

Failures == {"Deposit already processed", "Withdrawal already processed",
             "Investment already processed", "Invalid status transition"}

\* C8: a reject request for an entity that is approved, active or completed is
\* answered with a failure at once, and the step leaves every entity, every
\* balance and every ledger entry as they were.
C8_RejectAfterApproveFails ==
    [][\A s \in Slots :
          (slots[s].pc = "idle" /\ slots'[s].pc # "idle" /\ RejectOfProcessed(slots'[s]))
          => /\ slots'[s].pc = "done"
             /\ slots'[s].result \in Failures
             /\ UNCHANGED <<users, deposits, withdrawals, investments, transactions, mutations>>]_vars

\* a reject of an active investment has been answered "already processed"
C8_Witness ==
    \E s \in Slots :
        /\ slots[s].pc = "done" /\ slots[s].op = "rejectInvestment"
        /\ slots[s].result = "Investment already processed"
        /\ investments[slots[s].id].status = "active"

\* C9: whenever no handler is running, every balance change that was made has
\* exactly one ledger entry of the same user, entity, sign and amount.
C9_OneEntryPerMutation ==
    Quiescent =>
        \A m \in BagToSet(mutations) :
            Cardinality({t \in transactions :
                            /\ t.user = m.user /\ t.amount = m.delta
                            /\ t.key = m.key /\ t.ref = m.ref
                            /\ t.referral_user_id = m.referral_user_id})
            = CopiesIn(m, mutations)

\* C10: no Investment exists whose amount is below its plan's min_amount or
\* above its plan's max_amount: creation with such an amount is rejected.
C10_AmountWithinPlan ==
    \A i \in DOMAIN investments :
        /\ investments[i].amount >= plan(investments[i].plan).min_amount
        /\ investments[i].amount <= plan(investments[i].plan).max_amount

\* the balance changes applied for user u
UserDeltas(u) == SumDeltas({m \in BagToSet(mutations) : m.user = u})

\* C11: when balance-changing operations on one user run concurrently, the
\* balance reflects the delta of every operation that applied one: it is the
\* initial balance plus all deltas, none is overwritten by another operation's
\* read-modify-write.
C11_NoLostUpdate ==
    \A u \in Users : users[u].balance = InitBalance(u) + UserDeltas(u)

\* createInvestment has read the balance that an approveDeposit still in flight
\* has just credited, and will deduct from it
C11_Witness ==
    \E s, t \in Slots :
        /\ slots[s].op = "approveDeposit_part000" /\ slots[s].pc = "tx"
        /\ slots[t].op = "createInvestment" /\ slots[t].pc = "commit"
        /\ ~slots[t].conflict
        /\ slots[t].usr = slots[s].usr
        /\ slots[t].bal = InitBalance(slots[s].usr) + slots[s].amt

\* the status of the ledger entry of an entity in status st
Settled(st) ==
    CASE st = "pending" -> "pending"
      [] st = "approved" -> "completed"
      [] st = "rejected" -> "failed"
      [] OTHER -> "none"

\* C12: an operation that writes several records is all-or-nothing.  Whenever
\* no handler is running, every deposit and every withdrawal has its ledger
\* entry, the entry's status is the one that belongs to the entity's status, and
\* a deposit's amount has been credited exactly when the deposit is approved.
C12_AllOrNothing ==
    Quiescent =>
        /\ \A d \in DOMAIN deposits :
              /\ \E t \in transactions :
                    /\ t.key = "deposit_id" /\ t.ref = d
                    /\ t.status = Settled(deposits[d].status)
              /\ CopiesIn(Mutation(deposits[d].user, deposits[d].amount, "deposit_id", d),
                          mutations)
                 = (IF deposits[d].status = "approved" THEN 1 ELSE 0)
        /\ \A w \in DOMAIN withdrawals :
              \E t \in transactions :
                    /\ t.key = "withdrawal_id" /\ t.ref = w
                    /\ t.status = Settled(withdrawals[w].status)

\* the ledger entries of investment i
InvestmentEntries(txs, i) == {t \in txs : t.key = "investment_id" /\ t.ref = i}

\* C13: whatever happens at a step of the referral bonus that follows the
\* commit of approveInvestment, a failure included, the investment stays active,
\* its ledger entry stays completed, and the answer is success.
C13_BonusFailureIsolated ==
    [][\A s \in Slots :
          (/\ slots[s].op = "approveInvestment"
           /\ slots[s].pc \in {"bonus_inc", "bonus_tx"}
           /\ slots'[s] # slots[s])
          => /\ investments' = investments
             /\ investments'[slots[s].id].status = "active"
             /\ InvestmentEntries(transactions', slots[s].id)
                  = InvestmentEntries(transactions, slots[s].id)
             /\ \E t \in InvestmentEntries(transactions', slots[s].id) : t.status = "completed"
             /\ slots'[s].pc = "done" => slots'[s].result = "ok"]_vars

\* approveInvestment has answered success for a referred investor although the
\* referrer was never credited: the bonus failed, the investment is active
C13_Witness ==
    \E s \in Slots :
        /\ slots[s].pc = "done" /\ slots[s].op = "approveInvestment"
        /\ slots[s].result = "ok"
        /\ investments[slots[s].id].status = "active"
        /\ referred_by(investments[slots[s].id].user) # NoUser
        /\ users[referred_by(investments[slots[s].id].user)].balance
             = InitBalance(referred_by(investments[slots[s].id].user))
        /\ \A t \in transactions : t.type # "referral_bonus"

\* slot record r is the success answer of an admin approval of an investment
ApprovalAnswered(r) ==
    /\ r.pc = "done" /\ r.result = "ok"
    /\ \/ r.op \in {"approveInvestment", "approveInvestment_part000"}
       \/ r.op = "updateInvestmentStatus" /\ r.st = "active"

\* C14: once an admin approval has made the investment of a referred user
\* active, the referrer has been credited 20% of its amount, exactly once.
C14_ApprovalPaysBonus ==
    \A s \in Slots :
        ApprovalAnswered(slots[s]) =>
            LET inv == investments[slots[s].id]
                ref == referred_by(inv.user)
            IN ref # NoUser =>
                  /\ CopiesIn(BonusMutation(ref, ReferralBonus(inv.amount), inv.user), mutations) = 1
                  /\ users[ref].balance = InitBalance(ref) + ReferralBonus(inv.amount)

\* C15: an investment of amount a carries daily_earnings = a*d/100 and
\* total_returns = a*t/100 of its plan, and once an admin approval of it has been
\* answered it is active and its end_date is its start_date plus the plan's
\* duration in days.
C15_ReturnsAndDates ==
    /\ \A i \in DOMAIN investments :
          LET inv == investments[i] IN
          /\ inv.daily_earnings * 100 = inv.amount * plan(inv.plan).daily_interest
          /\ inv.total_returns * 100 = inv.amount * plan(inv.plan).total_interest
    /\ \A s \in Slots :
          ApprovalAnswered(slots[s]) =>
              LET inv == investments[slots[s].id] IN
              /\ inv.status = "active"
              /\ inv.end_date = inv.start_date + plan(inv.plan).duration * Day

\* C16: the principal is deducted once, at creation: when an approval of an
\* investment has been answered, the balance changes made for the investment
\* add up to minus its amount, so the approval has deducted nothing.
C16_PrincipalDeductedOnce ==
    \A s \in Slots :
        ApprovalAnswered(slots[s]) =>
            NetDelta("investment_id", slots[s].id) = 0 - investments[slots[s].id].amount

\* C17: the principal of an investment is refunded at most once, and for an
\* investment that ended rejected or cancelled the balance changes made for it
\* add up to zero: the balance is what it was before the creation.
C17_RefundRestores ==
    \A i \in DOMAIN investments :
        LET inv == investments[i] IN
        /\ CopiesIn(Mutation(inv.user, inv.amount, "investment_id", i), mutations) <= 1
        /\ inv.status \in {"rejected", "cancelled"} => NetDelta("investment_id", i) = 0

\* C18: for a completed investment without auto_renew, total_returns has been
\* credited to the balance exactly once, there is exactly one
\* investment_earnings ledger entry for it, and the user's total_earnings has
\* been incremented.
C18_CompletionCredits ==
    \A i \in DOMAIN investments :
        LET inv == investments[i] IN
        (inv.status = "completed" /\ ~inv.auto_renew) =>
            /\ CopiesIn(Mutation(inv.user, inv.total_returns, "investment_id", i), mutations) = 1
            /\ Cardinality({t \in InvestmentEntries(transactions, i) :
                               /\ t.type = "investment_earnings"
                               /\ t.amount = inv.total_returns}) = 1
            /\ users[inv.user].total_earnings > 0

\* C19: the step that completes an active investment with auto_renew leaves
\* every user unchanged, changes nothing of the investment but its status, and
\* appends exactly one investment: active, same user, plan and amount, dated
\* from the time of the renewal.  No other step appends an active investment.
C19_AutoRenewRollsForward ==
    [][/\ \A i \in DOMAIN investments :
            (/\ investments[i].status = "active" /\ investments[i].auto_renew
             /\ investments'[i].status = "completed")
            => LET old == investments[i]
                   new == investments'[Len(investments')]
               IN /\ users' = users
                  /\ investments'[i] = [old EXCEPT !.status = "completed"]
                  /\ Len(investments') = Len(investments) + 1
                  /\ new.user = old.user /\ new.plan = old.plan /\ new.amount = old.amount
                  /\ new.status = "active"
                  /\ new.start_date = now
                  /\ new.end_date - plan(old.plan).duration * Day \in {now + k : k \in Skews}
       /\ (/\ Len(investments') > Len(investments)
           /\ investments'[Len(investments')].status = "active")
          => \E i \in DOMAIN investments :
                /\ investments[i].status = "active" /\ investments[i].auto_renew
                /\ investments'[i].status = "completed"]_vars

\* an investment with auto_renew is completed and its renewal, dated later than
\* the original, is active
C19_Witness ==
    \E i, j \in DOMAIN investments :
        /\ i < j
        /\ investments[i].status = "completed" /\ investments[i].auto_renew
        /\ investments[i].start_date # NoDate
        /\ investments[j].status = "active"
        /\ investments[j].start_date > investments[i].start_date
        /\ investments[j].amount = investments[i].amount

\* C20: no step of createDeposit changes a user; a balance changes only in a
\* step of approveDeposit for a deposit of that user, which leaves the deposit
\* approved and the balance greater by the deposit's amount.
C20_DepositCreditedOnApproval ==
    [][/\ \A s \in Slots :
            (slots[s].op = "createDeposit" \/ slots'[s].op = "createDeposit")
            /\ slots'[s] # slots[s]
            => users' = users
       /\ \A u \in Users :
            users'[u].balance # users[u].balance
            => \E s \in Slots, d \in DOMAIN deposits :
                  /\ slots[s].op \in {"approveDeposit", "approveDeposit_part000"}
                  /\ slots[s].id = d /\ slots'[s] # slots[s]
                  /\ deposits[d].user = u
                  /\ deposits'[d].status = "approved"
                  /\ users'[u].balance = users[u].balance + deposits[d].amount]_vars

\* createDeposit has answered, the deposit is pending with its pending ledger
\* entry, and the balance of its user is the initial one
C20_Witness ==
    \E s \in Slots :
        /\ slots[s].op = "createDeposit" /\ slots[s].pc = "done" /\ slots[s].result = "ok"
        /\ slots[s].id \in DOMAIN deposits
        /\ deposits[slots[s].id].status = "pending"
        /\ \E t \in transactions :
              t.key = "deposit_id" /\ t.ref = slots[s].id /\ t.status = "pending"
        /\ users[deposits[slots[s].id].user].balance = InitBalance(deposits[slots[s].id].user)

\* C21: a deposit whose status is rejected has never had its amount credited,
\* once no handler works on it every ledger entry of it is failed, and an
\* approveDeposit and a rejectDeposit of the same deposit have not both
\* succeeded.
C21_RejectedNeverCredited ==
    /\ \A d \in DOMAIN deposits :
          deposits[d].status = "rejected"
          => /\ NetDelta("deposit_id", d) = 0
             /\ Quiescent => \A t \in transactions :
                                (t.key = "deposit_id" /\ t.ref = d) => t.status = "failed"
    /\ ~ \E s, t \in Slots :
            /\ slots[s].op = "approveDeposit" /\ slots[s].result = "ok"
            /\ slots[t].op = "rejectDeposit" /\ slots[t].result = "ok"
            /\ slots[s].id = slots[t].id

\* C22: for a withdrawal that has been created and approved, the balance
\* changes made on its account (by createWithdrawal and approveWithdrawal
\* together) add up to minus its amount.
C22_ApprovedWithdrawalDeducted ==
    \A w \in DOMAIN withdrawals :
        withdrawals[w].status = "approved"
        => NetDelta("withdrawal_id", w) = 0 - withdrawals[w].amount

\* C23: a ledger entry appears with status pending, and the status of an
\* existing entry changes only from pending, to completed or failed.
C23_EntrySettledOnce ==
    [][\A t \in transactions' :
          LET before == {o \in transactions :
                            Same(o, t.key, t.ref, t.referral_user_id) /\ o.n = t.n}
          IN IF before = {}
             THEN t.status = "pending"
             ELSE \A o \in before :
                     \/ o.status = t.status
                     \/ o.status = "pending" /\ t.status \in {"completed", "failed"}]_vars

\* the request that slot record r answers is an approve or a reject of an
\* entity that is no longer pending
RepeatOfProcessed(r) ==
    \/ /\ r.op \in {"approveDeposit", "rejectDeposit", "approveDeposit_part000"}
       /\ r.id \in DOMAIN deposits /\ deposits[r.id].status # "pending"
    \/ /\ r.op \in {"approveWithdrawal", "rejectWithdrawal", "approveWithdrawal_part000"}
       /\ r.id \in DOMAIN withdrawals /\ withdrawals[r.id].status # "pending"
    \/ /\ r.op \in {"approveInvestment", "rejectInvestment", "approveInvestment_part000"}
       /\ r.id \in DOMAIN investments /\ investments[r.id].status # "pending"

AlreadyProcessed == {"Deposit already processed", "Withdrawal already processed",
                     "Investment already processed"}

\* C24: an approve or reject request for an entity that has already been
\* processed is answered 'already processed' at once, and the step leaves every
\* entity, every balance and every ledger entry as they were.
C24_RepeatIsNoOp ==
    [][\A s \in Slots :
          (slots[s].pc = "idle" /\ slots'[s].pc # "idle" /\ RepeatOfProcessed(slots'[s]))
          => /\ slots'[s].pc = "done"
             /\ slots'[s].result \in AlreadyProcessed
             /\ UNCHANGED <<users, deposits, withdrawals, investments, transactions, mutations>>]_vars

\* a second approveDeposit of an approved deposit has been answered 'already
\* processed', the deposit's amount being credited once
C24_Witness ==
    \E s \in Slots :
        /\ slots[s].pc = "done" /\ slots[s].op = "approveDeposit"
        /\ slots[s].result = "Deposit already processed"
        /\ deposits[slots[s].id].status = "approved"
        /\ NetDelta("deposit_id", slots[s].id) = deposits[slots[s].id].amount

ValidationErrors ==
    {"Minimum deposit amount", "Minimum withdrawal amount", "Minimum investment",
     "Amount must be between", "Insufficient balance", "User has insufficient balance",
     "Deposit already processed", "Withdrawal already processed",
     "Investment already processed", "Invalid status transition"}

\* C25: a request answered with a validation error is answered in the step
\* that takes it, before any write of its handler: users, deposits, withdrawals,
\* investments and ledger are the same before and after.
C25_ValidationBeforeWrites ==
    [][\A s \in Slots :
          (slots[s].pc # "done" /\ slots'[s].pc = "done"
           /\ slots'[s].result \in ValidationErrors)
          => /\ slots[s].pc = "idle"
             /\ UNCHANGED <<users, deposits, withdrawals, investments, transactions, mutations>>]_vars

\* createInvestment has been refused for insufficient balance while an earlier
\* investment of the user exists
C25_Witness ==
    \E s \in Slots :
        /\ slots[s].pc = "done" /\ slots[s].op = "createInvestment"
        /\ slots[s].result = "Insufficient balance"
        /\ Len(investments) = 1
        /\ users[investments[1].user].balance < InitBalance(investments[1].user)

\* what the request answered in slot record r was to write is in the store
Persisted(r) ==
    CASE r.op = "createDeposit" -> r.id \in DOMAIN deposits
      [] r.op = "approveDeposit" -> deposits[r.id].status = "approved"
      [] r.op = "createInvestment" -> r.id \in DOMAIN investments
      [] r.op = "updateInvestmentStatus" -> investments[r.id].status = r.st
      [] OTHER -> FALSE

\* C26: with one request at a time, a transactional operation that has
\* answered a server error has none of its writes in the store.
C26_ServerErrorMeansRolledBack ==
    \A s \in Slots :
        (/\ slots[s].pc = "done" /\ slots[s].op \in Transactional
         /\ slots[s].result = "Server error")
        => ~Persisted(slots[s])

\* C27: with one request at a time and no failure but that of notifications,
\* a request that has passed validation has its writes in the store whatever
\* it answers: the failure of a notification undoes nothing.
C27_NotificationFailureHarmless ==
    \A s \in Slots :
        (slots[s].pc = "done" /\ slots[s].result \in {"ok", "Server error"})
        => Persisted(slots[s])

Creations == {"createInvestment", "createAdvancedInvestment"}
Approvals == {"approveInvestment", "approveInvestment_part000", "updateInvestmentStatus"}

\* C28: the investment that a creation request stores has status pending, and
\* a stored investment becomes active only in a step of an admin approval.
C28_CreatedPending ==
    [][\A i \in DOMAIN investments' :
          /\ (/\ i \notin DOMAIN investments
              /\ \E s \in Slots : slots[s].op \in Creations /\ slots[s].pc = "commit"
                                   /\ slots'[s].pc = "done")
             => investments'[i].status = "pending"
          /\ (/\ i \in DOMAIN investments
              /\ investments[i].status # "active" /\ investments'[i].status = "active")
             => \E s \in Slots : slots[s].op \in Approvals /\ slots[s].id = i
                                  /\ slots'[s] # slots[s]]_vars

\* C29: the step in which a creation request succeeds lowers the user's
\* balance by the amount and raises the user's total_invested by the amount.
C29_TotalInvestedWithDeduction ==
    [][\A s \in Slots :
          (/\ slots[s].op \in Creations /\ slots[s].pc = "commit"
           /\ slots'[s].pc = "done" /\ slots'[s].result = "ok")
          => LET u == slots[s].usr
                 a == slots[s].amt
             IN /\ users'[u].balance = users[u].balance - a
                /\ users'[u].total_invested = users[u].total_invested + a]_vars

\* C30: every referral_bonus entry belongs to an investment that is or has been
\* active: the entry is the referrer's of the investor, and its amount is 20%
\* of the investment's amount.
C30_BonusOnlyForActivation ==
    \A t \in transactions :
        t.type = "referral_bonus"
        => \E i \in DOMAIN investments :
              /\ investments[i].status \in {"active", "completed", "cancelled"}
              /\ investments[i].user = t.referral_user_id
              /\ t.user = referred_by(investments[i].user)
              /\ t.amount = ReferralBonus(investments[i].amount)

\* C31: whenever no handler is running, a user's referral_earnings is the sum
\* of the user's completed referral_bonus entries: the increment and the entry
\* exist together or not at all.
C31_BonusAppliedAsUnit ==
    Quiescent =>
        \A u \in Users :
            users[u].referral_earnings =
                SumAmounts({t \in transactions : /\ t.user = u /\ t.type = "referral_bonus"
                                                 /\ t.status = "completed"})

\* C32: every withdrawal has fee = 5% of amount and net_amount = amount - fee
\* from its creation on, and no step changes the amount, the fee or the
\* net_amount of a withdrawal that exists.
C32_FeeAndNetFixed ==
    [][\A w \in DOMAIN withdrawals' :
          LET new == withdrawals'[w] IN
          /\ new.fee * 100 = new.amount * FeePercent
          /\ new.net_amount = new.amount - new.fee
          /\ new.fee + new.net_amount = new.amount
          /\ w \in DOMAIN withdrawals
             => /\ new.amount = withdrawals[w].amount
                /\ new.fee = withdrawals[w].fee
                /\ new.net_amount = withdrawals[w].net_amount]_vars

\* a withdrawal of 10000 has been approved and still has fee 500 and
\* net_amount 9500
C32_Witness ==
    \E w \in DOMAIN withdrawals :
        /\ withdrawals[w].status = "approved"
        /\ withdrawals[w].amount = 10000
        /\ withdrawals[w].fee = 500
        /\ withdrawals[w].net_amount = 9500

Calculators == {"calculateReturns", "calculateAdvancedReturns"}

\* C33: no calculator answers with a result for an amount below the plan's
\* min_amount or above its max_amount, and plan.calculateReturns throws for
\* every such amount.
C33_ReturnsRejectOutOfRange ==
    /\ \A p \in Plans, a \in Amounts :
          (a < plan(p).min_amount \/ a > plan(p).max_amount)
          => plan_calculateReturns(p, a).thrown
    /\ \A s \in Slots :
          (/\ slots[s].pc = "done" /\ slots[s].op \in Calculators
           /\ \/ slots[s].amt < plan(slots[s].plan).min_amount
              \/ slots[s].amt > plan(slots[s].plan).max_amount)
          => slots[s].result # "ok"

\* C34: the dates of an investment are set on activation only: a pending or
\* rejected investment has neither start_date nor end_date, and an active one has
\* both, with end_date = start_date + the plan's duration in days.
C34_DatesOnlyOnActivation ==
    \A i \in DOMAIN investments :
        LET inv == investments[i] IN
        /\ inv.status \in {"pending", "rejected"}
           => inv.start_date = NoDate /\ inv.end_date = NoDate
        /\ inv.status = "active"
           => /\ inv.start_date # NoDate
              /\ inv.end_date = inv.start_date + plan(inv.plan).duration * Day

\* what the withdrawals of user u in status pending or approved add up to
RECURSIVE Outstanding(_, _)
Outstanding(u, n) ==
    IF n = 0 THEN 0
    ELSE Outstanding(u, n - 1)
         + (IF withdrawals[n].user = u /\ withdrawals[n].status \in {"pending", "approved"}
            THEN withdrawals[n].amount ELSE 0)

\* what has been credited to the balance of user u
Credited(u) == SumDeltas({m \in BagToSet(mutations) : m.user = u /\ m.delta > 0})

\* C35: for every user, the withdrawals in status pending or approved never add
\* up to more than the funds the user held: the initial balance plus what has
\* been credited since.
C35_WithdrawalsWithinFunds ==
    \A u \in Users : Outstanding(u, Len(withdrawals)) <= InitBalance(u) + Credited(u)

\* the ledger entry written when the entity was created
Originating(key, ref) == {t \in transactions : Same(t, key, ref, NoUser) /\ t.n = 1}

\* the status of the ledger entry of an investment in status st
SettledInvestment(st) ==
    CASE st = "pending" -> "pending"
      [] st = "active" -> "completed"
      [] st = "rejected" -> "failed"
      [] OTHER -> "none"

\* C36: whenever no handler is running, the originating ledger entry of a
\* deposit, a withdrawal or an investment is pending exactly while the entity is
\* pending, completed exactly when it has been approved or activated, and failed
\* exactly when it has been rejected.
C36_EntryFollowsEntity ==
    Quiescent =>
        /\ \A d \in DOMAIN deposits : \A t \in Originating("deposit_id", d) :
              t.status = Settled(deposits[d].status)
        /\ \A w \in DOMAIN withdrawals : \A t \in Originating("withdrawal_id", w) :
              t.status = Settled(withdrawals[w].status)
        /\ \A i \in DOMAIN investments : \A t \in Originating("investment_id", i) :
              investments[i].status \in {"pending", "active", "rejected"}
              => t.status = SettledInvestment(investments[i].status)

\* a request that rejects an investment: rejectInvestment, or
\* updateInvestmentStatus with status rejected
Rejection(r) ==
    \/ r.op = "rejectInvestment"
    \/ r.op = "updateInvestmentStatus" /\ r.st = "rejected"

\* C37: rejecting a pending investment through rejectInvestment and through
\* updateInvestmentStatus with status rejected gives the same result: whichever
\* of the two commits, the investment becomes rejected, the user's balance grows
\* by the investment's amount, the originating ledger entry becomes failed and
\* every other record stays as it was; a commit that fails changes nothing.
C37_RejectionsAgree ==
    [][\A s \in Slots :
          (/\ slots[s].pc = "commit" /\ Rejection(slots[s])
           /\ slots'[s].pc = "done")
          => LET i == slots[s].id
                 inv == investments[i]
             IN IF slots'[s].result = "ok"
                THEN /\ inv.status = "pending"
                     /\ investments' = [investments EXCEPT ![i].status = "rejected"]
                     /\ users' = [users EXCEPT ![inv.user].balance = @ + inv.amount]
                     /\ \A t \in transactions' :
                           IF Same(t, "investment_id", i, NoUser) /\ t.n = 1
                           THEN t.status = "failed"
                           ELSE t \in transactions
                     /\ Cardinality(transactions') = Cardinality(transactions)
                     /\ deposits' = deposits /\ withdrawals' = withdrawals
                ELSE /\ slots'[s].result = "Server error"
                     /\ UNCHANGED <<users, deposits, withdrawals, investments,
                                    transactions>>]_vars

\* an investment of 10000 was rejected through updateInvestmentStatus: it is
\* rejected, the balance is back at its initial value and the entry has failed
C37_Witness ==
    \E s \in Slots :
        /\ slots[s].pc = "done" /\ slots[s].op = "updateInvestmentStatus"
        /\ slots[s].st = "rejected" /\ slots[s].result = "ok"
        /\ slots[s].id \in DOMAIN investments
        /\ investments[slots[s].id].status = "rejected"
        /\ investments[slots[s].id].amount = 10000
        /\ users[investments[slots[s].id].user].balance
             = InitBalance(investments[slots[s].id].user)
        /\ \A t \in Originating("investment_id", slots[s].id) : t.status = "failed"

\* the statuses the handlers write to a withdrawal
WithdrawalStatusesWritten ==
    \A w \in DOMAIN withdrawals : withdrawals[w].status \in {"pending", "approved", "rejected"}

\* C38: an approved withdrawal reaches its terminal status: every withdrawal
\* that is approved is later completed.
C38_ApprovedReachesCompleted ==
    \A w \in WithdrawalIds :
        (w \in DOMAIN withdrawals /\ withdrawals[w].status = "approved")
        ~> (w \in DOMAIN withdrawals /\ withdrawals[w].status = "completed")

\* ------------------------------------------------------- specifications
Spec == Init /\ [][Next]_vars
SpecConcDeposit == InitConc /\ [][NextConcDeposit]_vars
SpecConcInvestment == InitConc /\ [][NextConcInvestment]_vars
SpecLifecycle == Init /\ [][NextLifecycle]_vars
SpecConcBalance == InitConc /\ [][NextConcBalance]_vars
SpecFail == Init /\ [][NextFail]_vars
SpecRenew == Init /\ [][NextRenew]_vars
SpecReturns == Init /\ [][NextReturns]_vars
\* the event loop runs every handler that can take a step, and requests keep
\* coming
SpecWithdrawalFair == Init /\ [][NextWithdrawal]_vars /\ WF_vars(NextWithdrawal)
SpecReject == InitConc /\ [][NextReject]_vars
SpecWithdrawal == Init /\ [][NextWithdrawal]_vars
SpecNotify == Init /\ [][NextNotify]_vars
SpecFailNotify == Init /\ [][NextFailNotify]_vars
SpecValidation == Init /\ [][NextValidation]_vars
SpecFailInvestment == Init /\ [][NextFailInvestment]_vars
====
